---- MODULE Spec2Model ----
(***************************************************************************)
(* NaizoLauncher: file synchronisation and verification engine.            *)
(*                                                                         *)
(* Nine specifications over one set of variables:                          *)
(*   SpecTransfer  one library entry driven through downloadLibraries ->   *)
(*                 downloadWithRetry -> downloadAndVerify -> downloadFile, *)
(*                 one step per await (src/file-manager/downloader.js).    *)
(*   SpecInstall   getMissingFiles + downloadAll over client, libraries,   *)
(*                 asset index and assets (file-validator, downloader).    *)
(*   SpecBatch     the same downloadAll over lists longer than one window. *)
(*   SpecManifest  downloadMinecraft over the asset list getAssets builds  *)
(*                 from the asset index (version-manifest.js).             *)
(*   SpecSync      ModpackManager.sync (modpack-manager).                  *)
(*   SpecValidate  repeated calls of the two validators, getMissingFiles   *)
(*                 and validateLocalFiles, between filesystem changes.     *)
(*   SpecStream    the 'data' handler of downloadFile, chunk by chunk.     *)
(*   SpecLaunch    the 'launch-game' handler of main.js around             *)
(*                 launchMinecraft and the game process.                   *)
(*   SpecRules     getLibraries over the rules of one library entry        *)
(*                 (version-manifest.js).                                  *)
(* A specification leaves the variables of the others at their idle        *)
(* values.                                                                 *)
(***************************************************************************)
EXTENDS Integers, Sequences, FiniteSets, TLC

\* ------------------------------------------------------------------ bounds
\* longest response body, in chunks
MaxChunks == 2
\* libraries of the version
NumLibs == 2
\* objects of the asset index
NumAssets == 2

\* ------------------------------------------------------- program constants
MAX_RETRIES == 3
RETRY_BASE_DELAY_MS == 1000
TIMEOUT_MS == 60000
CONCURRENT_DOWNLOADS == 5

\* ------------------------------------------------------------ file contents
\* A file is Absent (ENOENT) or a sequence of bytes; bytes are drawn from
\* Bytes, so no body equals Absent.
Absent == <<0>>
Bytes == {1, 2}
\* expectedSha1 of an entry that publishes no checksum (falsy in the source)
EmptySha1 == 0
\* the bytes the manifest's non-empty fingerprints were computed from
GoodBytes == <<1, 2>>
\* bytes left behind by an earlier installation
StaleBytes == <<2>>

RECURSIVE Sha1(_)
\* crypto.createHash('sha1').update(buffer).digest('hex'): a digest that is
\* never the empty string and distinguishes every two bodies of the model.
Sha1(buffer) ==
    IF buffer = <<>> THEN 1
    ELSE 3 * Sha1(SubSeq(buffer, 1, Len(buffer) - 1)) + buffer[Len(buffer)]

RECURSIVE Pow2(_)
\* Math.pow(2, n)
Pow2(n) == IF n <= 0 THEN 1 ELSE 2 * Pow2(n - 1)

RECURSIVE SumSeq(_)
SumSeq(s) == IF s = <<>> THEN 0 ELSE s[1] + SumSeq(Tail(s))

\* every response body the remote host can send, the truncated ones included
Payloads == UNION {[1..n -> Bytes] : n \in 0..MaxChunks}

\* ---------------------------------------------------------------- variables
VARIABLES
    \* --- SpecTransfer: one entry of downloadLibraries
    tpc,            \* position of the call chain
    expectedSha1,   \* lib.sha1
    destFile,       \* the file at libPath
    attempt,        \* loop variable of downloadWithRetry
    lastError,      \* lastError of downloadWithRetry
    error,          \* the error in flight (thrown, not yet handled)
    payload,        \* body of the current response
    received,       \* chunks of the body piped to the writer so far
    calls,          \* downloadAndVerify invocations so far
    thrown,         \* errors thrown by downloadAndVerify, in order
    delays,         \* arguments of sleep(), in order
    retryResult,    \* what downloadWithRetry returned or threw
    results,        \* results of Promise.all(downloadPromises)
    completed,      \* completed of downloadLibraries
    batchResult,    \* what downloadLibraries returned or threw
    \* --- SpecInstall: downloadMinecraft = getMissingFiles + downloadAll
    ipc,            \* position of downloadMinecraft
    requiredFiles,  \* result of getAllRequiredFiles
    clientJar,      \* versions/<v>/<v>.jar
    libraryFiles,   \* libraries/<lib.path>, by lib.path
    assetIndexFile, \* assets/indexes/<indexId>.json
    assetObjects,   \* assets/objects/<asset.path>, by asset.path
    missingFiles,   \* result of getMissingFiles
    stages,         \* stages of downloadAll
    currentStageIndex,
    offset,         \* i of the window loop of the running stage
    pending,        \* entries of the window still in flight
    failures,       \* entries of the window whose retries are exhausted
    stageCompleted, \* completed of the running stage
    stragglers,     \* asset transfers in flight after downloadAssets threw
    lastPass,       \* outcome of the previous downloadMinecraft
    lastEvent,      \* last event downloadAll handed to onProgress
    stageError,     \* entries named by the error a stage threw
    exhausted,      \* entries of the stage whose retries are exhausted
    \* --- SpecSync: ModpackManager.sync
    spc,            \* position of sync
    manifestUrl,    \* this.manifestUrl
    manifest,       \* the fetched manifest
    gameDir,        \* the files under this.gameDir, by relative path
    updates,        \* filesToDownload
    fileIndex,      \* position of the for loop of downloadUpdates
    progress,       \* events passed to onProgress
    folderIndex,    \* position of the for loop of cleanupExtraFiles
    scanned,        \* entries of the folder scanAndDelete has visited
    removed,        \* paths logged as 'Removing extra file'
    syncResult,     \* what sync returned or threw
    warned,         \* folders logged as 'Could not clean'
    tries,          \* downloadFile calls made for the file at fileIndex
    hungHosts,      \* hosts that accept a connection and never answer
    \* --- SpecValidate: repeated validation of an unchanged tree
    vside,          \* which validator is exercised
    plans,          \* plans returned since the tree last changed
    status,         \* last result of getInstallationStatus for this tree
    \* --- SpecStream: the 'data' handler of downloadFile
    dpc,            \* position of the response stream
    now,            \* Date.now(), in milliseconds since the response
    totalSize,      \* content-length of the response, 0 without the header
    lastProgressTime,
    downloadedSize,
    lastDownloadedSize,
    reports,        \* arguments of the calls of onProgress, with their time
    \* --- SpecLaunch: the 'launch-game' handler and launchMinecraft
    gameRunning,    \* gameRunning of main.js
    lpc,            \* position of each 'launch-game' request
    proc,           \* state of the process each request spawned
    replies,        \* what the handler returned to each request
    modpackEvents,  \* status of the events passed to onModpackProgress
    launched,       \* calls of launchMinecraft so far
    syncOutcome,    \* per request: how the modpack sync settled
    \* --- SpecRules: getLibraries over one entry of metadata.libraries
    gpc,            \* position in getLibraries
    platform,       \* process.platform
    libEntry,       \* the entry lib of the loop
    ruleIndex,      \* position in libEntry.rules
    include,        \* include of getLibraries
    included        \* libraries, the list getLibraries builds

xferVars == <<tpc, expectedSha1, destFile, attempt, lastError, error, payload,
              received, calls, thrown, delays, retryResult, results,
              completed, batchResult>>

instVars == <<ipc, requiredFiles, clientJar, libraryFiles, assetIndexFile,
              assetObjects, missingFiles, stages, currentStageIndex, offset,
              pending, failures, stageCompleted, stragglers, lastPass,
              lastEvent, stageError, exhausted>>

syncVars == <<spc, manifestUrl, manifest, gameDir, updates, fileIndex,
              progress, folderIndex, scanned, removed, syncResult, warned,
              tries, hungHosts>>

valVars == <<vside, plans, status>>

streamVars == <<dpc, now, totalSize, lastProgressTime, downloadedSize,
                lastDownloadedSize, reports>>

launchVars == <<gameRunning, lpc, proc, replies, modpackEvents, launched,
                syncOutcome>>

ruleVars == <<gpc, platform, libEntry, ruleIndex, include, included>>

vars == <<xferVars, instVars, syncVars, valVars, streamVars, launchVars,
          ruleVars>>

NoError == "none"
NoResult == [kind |-> "none"]

\* ------------------------------------------------------------- idle values
NoMissing == [client |-> <<>>, libraries |-> <<>>, assets |-> <<>>,
              assetIndex |-> "null"]

TransferIdle ==
    /\ tpc = "idle"
    /\ expectedSha1 = EmptySha1
    /\ destFile = Absent
    /\ attempt = 1
    /\ lastError = NoError
    /\ error = NoError
    /\ payload = <<>>
    /\ received = 0
    /\ calls = 0
    /\ thrown = <<>>
    /\ delays = <<>>
    /\ retryResult = NoResult
    /\ results = <<>>
    /\ completed = 0
    /\ batchResult = NoResult

InstallIdle ==
    /\ ipc = "off"
    /\ requiredFiles = <<>>
    /\ clientJar = Absent
    /\ libraryFiles = <<>>
    /\ assetIndexFile = Absent
    /\ assetObjects = <<>>
    /\ missingFiles = NoMissing
    /\ stages = <<>>
    /\ currentStageIndex = 0
    /\ offset = 0
    /\ pending = {}
    /\ failures = {}
    /\ stageCompleted = 0
    /\ stragglers = {}
    /\ lastPass = "none"
    /\ lastEvent = [stage |-> "none", stageProgress |-> 0,
                    overallProgress |-> 0, completed |-> 0, total |-> 0]
    /\ stageError = {}
    /\ exhausted = {}

SyncIdle ==
    /\ spc = "off"
    /\ manifestUrl = ""
    /\ manifest = <<>>
    /\ gameDir = <<>>
    /\ updates = <<>>
    /\ fileIndex = 0
    /\ progress = <<>>
    /\ folderIndex = 0
    /\ scanned = {}
    /\ removed = {}
    /\ syncResult = NoResult
    /\ warned = {}
    /\ tries = 0
    /\ hungHosts = {}

\* no call of getInstallationStatus has returned
NoStatus == [success |-> FALSE, state |-> "none"]

ValidateIdle ==
    /\ vside = "off"
    /\ plans = <<>>
    /\ status = NoStatus

StreamIdle ==
    /\ dpc = "off"
    /\ now = 0
    /\ totalSize = 0
    /\ lastProgressTime = 0
    /\ downloadedSize = 0
    /\ lastDownloadedSize = 0
    /\ reports = <<>>

LaunchIdle ==
    /\ gameRunning = FALSE
    /\ lpc = <<>>
    /\ proc = <<>>
    /\ replies = <<>>
    /\ modpackEvents = <<>>
    /\ launched = 0
    /\ syncOutcome = <<>>

\* a library entry without a rules field
NoRulesLib == [hasRules |-> FALSE, rules |-> <<>>]

RulesIdle ==
    /\ gpc = "off"
    /\ platform = ""
    /\ libEntry = NoRulesLib
    /\ ruleIndex = 0
    /\ include = FALSE
    /\ included = <<>>

\* =========================================================================
\* SpecTransfer
\* =========================================================================

\* errors of the axios request: timeout, network failure, HTTP status
RequestErrors == {"ECONNABORTED", "ENOTFOUND", "ERR_BAD_RESPONSE"}
\* error of pipeline(response.data, writer)
StreamError == "ERR_STREAM_PREMATURE_CLOSE"
TimedOut == "Download timed out"
Sha1Failed == "SHA1 verification failed"

\* downloadFile's catch block rethrows a timeout under its own message
RethrownAs(e) == IF e = "ECONNABORTED" THEN TimedOut ELSE e

\* errors downloadFile can throw
DownloadFileErrors == {RethrownAs(e) : e \in RequestErrors} \cup {StreamError}

TransferInit ==
    /\ tpc = "loop"
    /\ expectedSha1 \in {EmptySha1, Sha1(GoodBytes)}
    /\ destFile \in {Absent, StaleBytes}
    /\ attempt = 1
    /\ lastError = NoError
    /\ error = NoError
    /\ payload = <<>>
    /\ received = 0
    /\ calls = 0
    /\ thrown = <<>>
    /\ delays = <<>>
    /\ retryResult = NoResult
    /\ results = <<>>
    /\ completed = 0
    /\ batchResult = NoResult
    /\ InstallIdle
    /\ SyncIdle
    /\ ValidateIdle
    /\ StreamIdle
    /\ LaunchIdle /\ RulesIdle

\* for (attempt = 1; attempt <= MAX_RETRIES; ...) try { downloadAndVerify(...)
\* which calls downloadFile, which creates the directory and sends the request
DownloadWithRetryLoop ==
    /\ tpc = "loop"
    /\ attempt <= MAX_RETRIES
    /\ calls' = calls + 1
    /\ payload' = <<>>
    /\ received' = 0
    /\ tpc' = "request"
    /\ UNCHANGED <<expectedSha1, destFile, attempt, lastError, error, thrown,
                   delays, retryResult, results, completed, batchResult>>
    /\ UNCHANGED <<instVars, syncVars, valVars, streamVars, launchVars, ruleVars>>

\* await axios({... timeout: TIMEOUT_MS}) rejects
DownloadFileRequestFails ==
    /\ tpc = "request"
    /\ \E e \in RequestErrors : error' = e
    /\ tpc' = "catch"
    /\ UNCHANGED <<expectedSha1, destFile, attempt, lastError, payload,
                   received, calls, thrown, delays, retryResult, results,
                   completed, batchResult>>
    /\ UNCHANGED <<instVars, syncVars, valVars, streamVars, launchVars, ruleVars>>

\* the response arrives; createWriteStream(destPath) truncates the destination
DownloadFileResponse ==
    /\ tpc = "request"
    /\ \E body \in Payloads : payload' = body
    /\ destFile' = <<>>
    /\ received' = 0
    /\ tpc' = "pipe"
    /\ UNCHANGED <<expectedSha1, attempt, lastError, error, calls, thrown,
                   delays, retryResult, results, completed, batchResult>>
    /\ UNCHANGED <<instVars, syncVars, valVars, streamVars, launchVars, ruleVars>>

\* pipeline(response.data, writer): one chunk reaches the disk
DownloadFileChunk ==
    /\ tpc = "pipe"
    /\ received < Len(payload)
    /\ received' = received + 1
    /\ destFile' = Append(destFile, payload[received + 1])
    /\ UNCHANGED <<tpc, expectedSha1, attempt, lastError, error, payload, calls,
                   thrown, delays, retryResult, results, completed,
                   batchResult>>
    /\ UNCHANGED <<instVars, syncVars, valVars, streamVars, launchVars, ruleVars>>

\* pipeline rejects: the connection drops or the write fails mid-transfer
DownloadFileStreamFails ==
    /\ tpc = "pipe"
    /\ error' = StreamError
    /\ tpc' = "catch"
    /\ UNCHANGED <<expectedSha1, destFile, attempt, lastError, payload,
                   received, calls, thrown, delays, retryResult, results,
                   completed, batchResult>>
    /\ UNCHANGED <<instVars, syncVars, valVars, streamVars, launchVars, ruleVars>>

\* pipeline resolves: downloadFile returns true
DownloadFileReturns ==
    /\ tpc = "pipe"
    /\ received = Len(payload)
    /\ tpc' = "verify"
    /\ UNCHANGED <<expectedSha1, destFile, attempt, lastError, error, payload,
                   received, calls, thrown, delays, retryResult, results,
                   completed, batchResult>>
    /\ UNCHANGED <<instVars, syncVars, valVars, streamVars, launchVars, ruleVars>>

\* the same catch block without the unlink
DownloadFileCatchKeepsFile ==
    /\ tpc = "catch"
    /\ error' = RethrownAs(error)
    /\ tpc' = "attemptThrew"
    /\ UNCHANGED <<expectedSha1, destFile, attempt, lastError, payload,
                   received, calls, thrown, delays, retryResult, results,
                   completed, batchResult>>
    /\ UNCHANGED <<instVars, syncVars, valVars, streamVars, launchVars, ruleVars>>

\* catch (error) { try { fs.unlink(destPath) } catch {} ; throw }
DownloadFileCatch ==
    /\ tpc = "catch"
    /\ destFile' = Absent
    /\ error' = RethrownAs(error)
    /\ tpc' = "attemptThrew"
    /\ UNCHANGED <<expectedSha1, attempt, lastError, payload, received, calls,
                   thrown, delays, retryResult, results, completed,
                   batchResult>>
    /\ UNCHANGED <<instVars, syncVars, valVars, streamVars, launchVars, ruleVars>>

\* a comparison that accepts whatever was written
VerifiesAlways(expected, buffer) == TRUE

\* if (!expectedSha1) return true; ... hash === expectedSha1
Verifies(expected, buffer) ==
    \/ expected = EmptySha1
    \/ Sha1(buffer) = expected

\* the corrupt file left in place
CorruptFileKept(file) == file

\* await fs.unlink(destPath) // Delete corrupted file
CorruptFileRemoved(file) == Absent

\* downloadAndVerify after downloadFile returned
DownloadAndVerifyCheck ==
    /\ tpc = "verify"
    /\ IF Verifies(expectedSha1, destFile)
       THEN /\ tpc' = "attemptReturned"
            /\ UNCHANGED <<destFile, error>>
       ELSE /\ destFile' = CorruptFileRemoved(destFile)
            /\ error' = Sha1Failed
            /\ tpc' = "attemptThrew"
    /\ UNCHANGED <<expectedSha1, attempt, lastError, payload, received, calls,
                   thrown, delays, retryResult, results, completed,
                   batchResult>>
    /\ UNCHANGED <<instVars, syncVars, valVars, streamVars, launchVars, ruleVars>>

\* a delay that does not grow
RetryDelayFlat(a) == RETRY_BASE_DELAY_MS

\* RETRY_BASE_DELAY_MS * Math.pow(2, attempt - 1)
RetryDelay(a) == RETRY_BASE_DELAY_MS * Pow2(a - 1)

\* keeps the first error instead of the last
RememberFirst(previous, e) == IF previous = NoError THEN e ELSE previous

\* lastError = error
Remember(previous, e) == e

\* catch (error) { lastError = error; if (attempt < MAX_RETRIES) sleep(delay) }
\* followed by attempt++
DownloadWithRetryCatch ==
    /\ tpc = "attemptThrew"
    /\ lastError' = Remember(lastError, error)
    /\ thrown' = Append(thrown, error)
    /\ error' = NoError
    /\ delays' = IF attempt < MAX_RETRIES
                 THEN Append(delays, RetryDelay(attempt))
                 ELSE delays
    /\ attempt' = attempt + 1
    /\ tpc' = "loop"
    /\ UNCHANGED <<expectedSha1, destFile, payload, received, calls,
                   retryResult, results, completed, batchResult>>
    /\ UNCHANGED <<instVars, syncVars, valVars, streamVars, launchVars, ruleVars>>

\* return await downloadAndVerify(...)
DownloadWithRetryReturns ==
    /\ tpc = "attemptReturned"
    /\ retryResult' = [kind |-> "returned"]
    /\ tpc' = "settling"
    /\ UNCHANGED <<expectedSha1, destFile, attempt, lastError, error, payload,
                   received, calls, thrown, delays, results, completed,
                   batchResult>>
    /\ UNCHANGED <<instVars, syncVars, valVars, streamVars, launchVars, ruleVars>>

\* the loop ends: throw new Error(`... after ${MAX_RETRIES} attempts: ${lastError.message}`)
DownloadWithRetryExhausted ==
    /\ tpc = "loop"
    /\ attempt > MAX_RETRIES
    /\ retryResult' = [kind |-> "threw", attempts |-> MAX_RETRIES,
                       cause |-> lastError]
    /\ tpc' = "settling"
    /\ UNCHANGED <<expectedSha1, destFile, attempt, lastError, error, payload,
                   received, calls, thrown, delays, results, completed,
                   batchResult>>
    /\ UNCHANGED <<instVars, syncVars, valVars, streamVars, launchVars, ruleVars>>

\* the body of batch.map(async (lib) => ...) after downloadWithRetry settled
DownloadLibrariesEntrySettles ==
    /\ tpc = "settling"
    /\ IF retryResult.kind = "returned"
       THEN /\ completed' = completed + 1
            /\ results' = Append(results, [success |-> TRUE])
       ELSE /\ completed' = completed
            /\ results' = Append(results, [success |-> FALSE,
                                           error |-> retryResult])
    /\ tpc' = "window"
    /\ UNCHANGED <<expectedSha1, destFile, attempt, lastError, error, payload,
                   received, calls, thrown, delays, retryResult, batchResult>>
    /\ UNCHANGED <<instVars, syncVars, valVars, streamVars, launchVars, ruleVars>>

\* results.filter(r => !r.success)
WindowFailures(rs) == {i \in DOMAIN rs : ~rs[i].success}

\* results = await Promise.all(downloadPromises); throw if failures.length > 0
DownloadLibrariesWindowDone ==
    /\ tpc = "window"
    /\ IF WindowFailures(results) # {}
       THEN batchResult' = [kind |-> "threw",
                            failed |-> WindowFailures(results)]
       ELSE batchResult' = [kind |-> "returned", value |-> completed]
    /\ tpc' = "batchDone"
    /\ UNCHANGED <<expectedSha1, destFile, attempt, lastError, error, payload,
                   received, calls, thrown, delays, retryResult, results,
                   completed>>
    /\ UNCHANGED <<instVars, syncVars, valVars, streamVars, launchVars, ruleVars>>

TransferNext ==
    \/ DownloadWithRetryLoop
    \/ DownloadFileRequestFails
    \/ DownloadFileResponse
    \/ DownloadFileChunk
    \/ DownloadFileStreamFails
    \/ DownloadFileReturns
    \/ DownloadFileCatch
    \/ DownloadAndVerifyCheck
    \/ DownloadWithRetryCatch
    \/ DownloadWithRetryReturns
    \/ DownloadWithRetryExhausted
    \/ DownloadLibrariesEntrySettles
    \/ DownloadLibrariesWindowDone

SpecTransfer == TransferInit /\ [][TransferNext]_vars

\* =========================================================================
\* SpecInstall
\* =========================================================================

\* bodies the download hosts serve for an entry
ServedBodies == {GoodBytes, StaleBytes}
\* the JSON written to assets/indexes/<indexId>.json
IndexBody == <<1>>

\* getAllRequiredFiles: the client jar and every asset object carry a sha1,
\* a library (Fabric) may carry none
RequiredFilesChoices ==
    {[version |-> "fabric-loader-1.20.1",
      client |-> [sha1 |-> Sha1(GoodBytes)],
      libraries |-> [i \in 1..NumLibs |-> [path |-> i, sha1 |-> ls[i]]],
      assets |-> [indexId |-> "5",
                  assets |-> [j \in 1..NumAssets |->
                                 [path |-> j, hash |-> Sha1(GoodBytes)]]]]
        : ls \in [1..NumLibs -> {EmptySha1, Sha1(GoodBytes)}]}

InstallStart ==
    /\ ipc = "idle"
    /\ requiredFiles \in RequiredFilesChoices
    /\ clientJar = Absent
    /\ libraryFiles = [i \in 1..NumLibs |-> Absent]
    /\ assetIndexFile = Absent
    /\ assetObjects = [j \in 1..NumAssets |-> Absent]
    /\ missingFiles = NoMissing
    /\ stages = <<>>
    /\ currentStageIndex = 0
    /\ offset = 0
    /\ pending = {}
    /\ failures = {}
    /\ stageCompleted = 0
    /\ stragglers = {}
    /\ lastPass = "none"
    /\ lastEvent = [stage |-> "none", stageProgress |-> 0,
                    overallProgress |-> 0, completed |-> 0, total |-> 0]
    /\ stageError = {}
    /\ exhausted = {}

InstallInit ==
    /\ InstallStart /\ TransferIdle /\ SyncIdle /\ ValidateIdle
    /\ StreamIdle /\ LaunchIdle /\ RulesIdle

\* validateFile without the existence-only shortcut
ValidateFileStrict(file, expected) ==
    IF file = Absent THEN FALSE ELSE Sha1(file) = expected

\* validateFile(filePath, expectedSha1)
ValidateFile(file, expected) ==
    IF file = Absent THEN FALSE
    ELSE IF expected = EmptySha1 THEN TRUE
    ELSE Sha1(file) = expected

\* validateLibraries(gameDir, libraries)
ValidateLibraries(files, libraries) ==
    SelectSeq(libraries, LAMBDA lib : ~ValidateFile(files[lib.path], lib.sha1))

\* validateAssets(gameDir, assets); exported, called by nothing
ValidateAssets(files, assets) ==
    SelectSeq(assets, LAMBDA asset : ~ValidateFile(files[asset.path], asset.hash))

\* getMissingFiles(gameDir, requiredFiles); null is the empty sequence for
\* client and "null" for assetIndex
GetMissingFiles(client, libs, index, required) ==
    [client |-> IF ~ValidateFile(client, required.client.sha1)
                THEN <<required.client>> ELSE <<>>,
     libraries |-> ValidateLibraries(libs, required.libraries),
     assetIndex |-> IF index = Absent THEN required.assets.indexId ELSE "null",
     assets |-> IF index = Absent THEN required.assets.assets ELSE <<>>]

StageOrder == <<"client", "libraries", "asset-index", "assets">>

StageWeight(name) ==
    CASE name = "client" -> 20
      [] name = "libraries" -> 30
      [] name = "asset-index" -> 5
      [] name = "assets" -> 45

\* a downloadAll without its fourth if
StageHasWorkButAssets(name, missing) ==
    CASE name = "client" -> missing.client # <<>>
      [] name = "libraries" -> Len(missing.libraries) > 0
      [] name = "asset-index" -> missing.assetIndex # "null"
      [] name = "assets" -> FALSE

\* the conditions of the four ifs of downloadAll
StageHasWork(name, missing) ==
    CASE name = "client" -> missing.client # <<>>
      [] name = "libraries" -> Len(missing.libraries) > 0
      [] name = "asset-index" -> missing.assetIndex # "null"
      [] name = "assets" -> Len(missing.assets) > 0

\* stages.push(...) for every stage with something missing
BuildStages(missing) ==
    LET names == SelectSeq(StageOrder, LAMBDA n : StageHasWork(n, missing))
    IN [k \in 1..Len(names) |-> [name |-> names[k],
                                 weight |-> StageWeight(names[k])]]

RECURSIVE StageFrom(_, _)
\* the first of the ifs from the k-th on whose condition holds
StageFrom(k, missing) ==
    IF k > Len(StageOrder) THEN "complete"
    ELSE IF StageHasWork(StageOrder[k], missing) THEN StageOrder[k]
    ELSE StageFrom(k + 1, missing)

\* libraries.slice(i), every entry from the i-th on
WindowToEnd(list, i, size) ==
    {k \in 1..Len(list) : i < k}

\* libraries.slice(i, i + BATCH_SIZE), as positions of the list
Window(list, i, size) ==
    {k \in 1..Len(list) : i < k /\ k <= i + size}

\* percentages a data event of downloadFile reports for a file
FilePercents == {0, 50, 100}

\* no event delivered yet
NoEvent == [stage |-> "none", stageProgress |-> 0, overallProgress |-> 0,
            completed |-> 0, total |-> 0]

\* stages.reduce((sum, s) => sum + s.weight, 0), over the first n stages
RECURSIVE SumWeights(_, _)
SumWeights(stgs, n) ==
    IF n = 0 THEN 0 ELSE SumWeights(stgs, n - 1) + stgs[n].weight

\* the stage lists, positions and stage percentages for which the sum of
\* doubles of calculateOverallProgress ends just below the integer the
\* exact sum reaches (IEEE-754 binary64, round to nearest), so that
\* Math.floor yields one less
OverallRoundsBelow ==
    {<<<<"client", "libraries", "assets">>, 1, 3>>,
     <<<<"client", "libraries", "assets">>, 1, 22>>,
     <<<<"client", "asset-index", "assets">>, 1, 6>>,
     <<<<"client", "asset-index", "assets">>, 1, 20>>,
     <<<<"client", "asset-index", "assets">>, 1, 34>>,
     <<<<"client", "asset-index", "assets">>, 1, 48>>,
     <<<<"client", "asset-index", "assets">>, 2, 2>>,
     <<<<"client", "asset-index", "assets">>, 2, 16>>}

\* calculateOverallProgress(stageProgress), with currentStageIndex = index:
\* Math.floor of a sum of doubles
CalculateOverallProgress(stgs, index, stageProgress) ==
    LET exact == (100 * SumWeights(stgs, index)
                     + stgs[index + 1].weight * stageProgress)
                 \div SumWeights(stgs, Len(stgs))
        names == [k \in 1..Len(stgs) |-> stgs[k].name]
    IN IF <<names, index, stageProgress>> \in OverallRoundsBelow
       THEN exact - 1 ELSE exact

\* the pairs (completed, total), total up to 200, for which the double
\* (completed / total) * 100 ends just below the integer the exact quotient
\* reaches
PercentRoundsBelow ==
    {<<29, 50>>, <<29, 100>>, <<57, 100>>, <<58, 100>>, <<87, 150>>,
     <<58, 200>>, <<114, 200>>, <<116, 200>>}

\* Math.floor((completed / total) * 100)
StagePercent(done, total) ==
    IF <<done, total>> \in PercentRoundsBelow
    THEN (100 * done) \div total - 1
    ELSE (100 * done) \div total

\* Math.floor(((completed + (progress.percentage / 100)) / total) * 100);
\* for the percentages of FilePercents the double is exact up to total 24
LibraryFileProgress(done, total, percentage) ==
    (100 * done + percentage) \div total

\* the event downloadAll hands to onProgress for a stage event
StageEvent(stage, stageProgress, done, total) ==
    [stage |-> stage, stageProgress |-> stageProgress,
     overallProgress |-> CalculateOverallProgress(stages, currentStageIndex,
                                                  stageProgress),
     completed |-> done, total |-> total]

\* downloadMinecraft: const missingFiles = await getMissingFiles(...)
GetMissingFilesCall ==
    /\ ipc = "idle"
    /\ missingFiles' = GetMissingFiles(clientJar, libraryFiles, assetIndexFile,
                                       requiredFiles)
    /\ ipc' = "validated"
    /\ UNCHANGED <<requiredFiles, clientJar, libraryFiles, assetIndexFile,
                   assetObjects, stages, currentStageIndex, offset, pending,
                   failures, stageCompleted, stragglers, lastPass>>
    /\ UNCHANGED <<lastEvent, stageError, exhausted>>
    /\ UNCHANGED <<xferVars, syncVars, valVars, streamVars, launchVars, ruleVars>>

\* downloadAll: the stages are built and the first one with work is entered
DownloadAllBegins ==
    /\ ipc = "validated"
    /\ stages' = BuildStages(missingFiles)
    /\ currentStageIndex' = 0
    /\ offset' = 0
    /\ stageCompleted' = 0
    /\ lastEvent' = NoEvent
    /\ stageError' = {}
    /\ exhausted' = {}
    /\ ipc' = StageFrom(1, missingFiles)
    /\ UNCHANGED <<requiredFiles, clientJar, libraryFiles, assetIndexFile,
                   assetObjects, missingFiles, pending, failures, stragglers,
                   lastPass>>
    /\ UNCHANGED <<xferVars, syncVars, valVars, streamVars, launchVars, ruleVars>>

\* a data event of the client jar reaches the callback of downloadAll; a
\* retried attempt starts again from the first chunk
ClientProgress ==
    /\ ipc = "client"
    /\ \E percentage \in FilePercents :
          lastEvent' = StageEvent("client", percentage, 0, 0)
    /\ UNCHANGED <<ipc, requiredFiles, clientJar, libraryFiles, assetIndexFile,
                   assetObjects, missingFiles, stages, currentStageIndex,
                   offset, pending, failures, stageCompleted, stragglers,
                   lastPass, stageError, exhausted>>
    /\ UNCHANGED <<xferVars, syncVars, valVars, streamVars, launchVars, ruleVars>>

\* await downloadClient(...): downloadWithRetry leaves a verified file or,
\* its retries exhausted, no file
DownloadClient ==
    /\ ipc = "client"
    /\ \/ /\ \E body \in ServedBodies :
                /\ Verifies(requiredFiles.client.sha1, body)
                /\ clientJar' = body
          /\ currentStageIndex' = currentStageIndex + 1
          /\ ipc' = StageFrom(2, missingFiles)
       \/ /\ clientJar' = Absent
          /\ ipc' = "failed"
          /\ UNCHANGED currentStageIndex
    /\ UNCHANGED <<requiredFiles, libraryFiles, assetIndexFile, assetObjects,
                   missingFiles, stages, offset, pending, failures,
                   stageCompleted, stragglers, lastPass>>
    /\ UNCHANGED <<lastEvent, stageError, exhausted>>
    /\ UNCHANGED <<xferVars, syncVars, valVars, streamVars, launchVars, ruleVars>>

\* downloadLibraries: batch.map(...) starts every transfer of the window
DownloadLibrariesWindow ==
    /\ ipc = "libraries"
    /\ pending' = Window(missingFiles.libraries, offset, CONCURRENT_DOWNLOADS)
    /\ failures' = {}
    /\ stageCompleted' = IF offset = 0 THEN 0 ELSE stageCompleted
    /\ ipc' = "librariesWindow"
    /\ UNCHANGED <<requiredFiles, clientJar, libraryFiles, assetIndexFile,
                   assetObjects, missingFiles, stages, currentStageIndex,
                   offset, stragglers, lastPass>>
    /\ UNCHANGED <<lastEvent, stageError, exhausted>>
    /\ UNCHANGED <<xferVars, syncVars, valVars, streamVars, launchVars, ruleVars>>

\* a data event of a library in flight: the 'library' event
LibraryProgress(k) ==
    /\ ipc = "librariesWindow"
    /\ k \in pending
    /\ \E percentage \in FilePercents :
          lastEvent' = StageEvent("libraries",
                                  LibraryFileProgress(stageCompleted,
                                      Len(missingFiles.libraries), percentage),
                                  stageCompleted, Len(missingFiles.libraries))
    /\ UNCHANGED <<ipc, requiredFiles, clientJar, libraryFiles, assetIndexFile,
                   assetObjects, missingFiles, stages, currentStageIndex,
                   offset, pending, failures, stageCompleted, stragglers,
                   lastPass, stageError, exhausted>>
    /\ UNCHANGED <<xferVars, syncVars, valVars, streamVars, launchVars, ruleVars>>

\* one downloadPromise of the window settles: completed++ and the
\* 'library-complete' event, or the failure caught and returned as
\* {success: false}
LibrarySettles(k) ==
    /\ ipc = "librariesWindow"
    /\ k \in pending
    /\ LET lib == missingFiles.libraries[k]
           total == Len(missingFiles.libraries) IN
       \/ /\ \E body \in ServedBodies :
                /\ Verifies(lib.sha1, body)
                /\ libraryFiles' = [libraryFiles EXCEPT ![lib.path] = body]
          /\ stageCompleted' = stageCompleted + 1
          /\ lastEvent' = StageEvent("libraries",
                                     StagePercent(stageCompleted + 1, total),
                                     stageCompleted + 1, total)
          /\ UNCHANGED <<failures, exhausted>>
       \/ /\ libraryFiles' = [libraryFiles EXCEPT ![lib.path] = Absent]
          /\ failures' = failures \cup {k}
          /\ exhausted' = exhausted \cup {k}
          /\ UNCHANGED <<stageCompleted, lastEvent>>
    /\ pending' = pending \ {k}
    /\ UNCHANGED <<ipc, requiredFiles, clientJar, assetIndexFile, assetObjects,
                   missingFiles, stages, currentStageIndex, offset, stragglers,
                   lastPass, stageError>>
    /\ UNCHANGED <<xferVars, syncVars, valVars, streamVars, launchVars, ruleVars>>

\* a Promise.all that resolves with the first promise that settles
AllSettledOrOne(inFlight, window) == inFlight # window

\* Promise.all(downloadPromises) resolves: every promise of the window has
\* settled
AllSettled(inFlight, window) == inFlight = {}

\* await Promise.all(downloadPromises); throw on failures, naming each of
\* them, else the next window or return completed
DownloadLibrariesWindowResolves ==
    /\ ipc = "librariesWindow"
    /\ AllSettled(pending, Window(missingFiles.libraries, offset,
                                  CONCURRENT_DOWNLOADS))
    /\ IF failures # {}
       THEN /\ ipc' = "failed"
            /\ stageError' = failures
            /\ UNCHANGED <<offset, currentStageIndex>>
       ELSE IF offset + CONCURRENT_DOWNLOADS < Len(missingFiles.libraries)
       THEN /\ offset' = offset + CONCURRENT_DOWNLOADS
            /\ ipc' = "libraries"
            /\ UNCHANGED <<currentStageIndex, stageError>>
       ELSE /\ offset' = 0
            /\ currentStageIndex' = currentStageIndex + 1
            /\ ipc' = StageFrom(3, missingFiles)
            /\ UNCHANGED stageError
    /\ UNCHANGED <<requiredFiles, clientJar, libraryFiles, assetIndexFile,
                   assetObjects, missingFiles, stages, pending, failures,
                   stageCompleted, stragglers, lastPass>>
    /\ UNCHANGED <<lastEvent, exhausted>>
    /\ UNCHANGED <<xferVars, syncVars, valVars, streamVars, launchVars, ruleVars>>

\* getAssetIndex(requiredFiles.version), then downloadAssetIndex reports 0
\* before its request
DownloadAssetIndexBegins ==
    /\ ipc = "asset-index"
    /\ \/ /\ lastEvent' = StageEvent("asset-index", 0, 0, 0)
          /\ ipc' = "assetIndexRequest"
       \/ /\ ipc' = "failed"
          /\ UNCHANGED lastEvent
    /\ UNCHANGED <<requiredFiles, clientJar, libraryFiles, assetIndexFile,
                   assetObjects, missingFiles, stages, currentStageIndex,
                   offset, pending, failures, stageCompleted, stragglers,
                   lastPass, stageError, exhausted>>
    /\ UNCHANGED <<xferVars, syncVars, valVars, streamVars, launchVars, ruleVars>>

\* downloadAssetIndex: one request, no retry; the index is written and 100
\* is reported
DownloadAssetIndex ==
    /\ ipc = "assetIndexRequest"
    /\ \/ /\ assetIndexFile' = IndexBody
          /\ lastEvent' = StageEvent("asset-index", 100, 0, 0)
          /\ currentStageIndex' = currentStageIndex + 1
          /\ ipc' = StageFrom(4, missingFiles)
       \/ /\ ipc' = "failed"
          /\ UNCHANGED <<assetIndexFile, currentStageIndex, lastEvent>>
    /\ UNCHANGED <<requiredFiles, clientJar, libraryFiles, assetObjects,
                   missingFiles, stages, offset, pending, failures,
                   stageCompleted, stragglers, lastPass, stageError,
                   exhausted>>
    /\ UNCHANGED <<xferVars, syncVars, valVars, streamVars, launchVars, ruleVars>>

\* downloadAssets: batch.map(...) starts every transfer of the window
DownloadAssetsWindow ==
    /\ ipc = "assets"
    /\ pending' = Window(missingFiles.assets, offset, CONCURRENT_DOWNLOADS * 2)
    /\ failures' = {}
    /\ stageCompleted' = IF offset = 0 THEN 0 ELSE stageCompleted
    /\ ipc' = "assetsWindow"
    /\ UNCHANGED <<requiredFiles, clientJar, libraryFiles, assetIndexFile,
                   assetObjects, missingFiles, stages, currentStageIndex,
                   offset, stragglers, lastPass>>
    /\ UNCHANGED <<lastEvent, stageError, exhausted>>
    /\ UNCHANGED <<xferVars, syncVars, valVars, streamVars, launchVars, ruleVars>>

\* one transfer of the window settles: completed++ and the 'asset' event,
\* or the failure is rethrown, Promise.all rejects at once with that error
\* and downloadAssets throws with the rest still in flight
AssetSettles(k) ==
    /\ ipc = "assetsWindow"
    /\ k \in pending
    /\ LET asset == missingFiles.assets[k]
           total == Len(missingFiles.assets) IN
       \/ /\ \E body \in ServedBodies :
                /\ Verifies(asset.hash, body)
                /\ assetObjects' = [assetObjects EXCEPT ![asset.path] = body]
          /\ stageCompleted' = stageCompleted + 1
          /\ lastEvent' = StageEvent("assets",
                                     StagePercent(stageCompleted + 1, total),
                                     stageCompleted + 1, total)
          /\ pending' = pending \ {k}
          /\ UNCHANGED <<ipc, stragglers, stageError, exhausted>>
       \/ /\ assetObjects' = [assetObjects EXCEPT ![asset.path] = Absent]
          /\ ipc' = "failed"
          /\ stageError' = {k}
          /\ exhausted' = exhausted \cup {k}
          /\ stragglers' = stragglers \cup
                {missingFiles.assets[r].path : r \in pending \ {k}}
          /\ pending' = {}
          /\ UNCHANGED <<stageCompleted, lastEvent>>
    /\ UNCHANGED <<requiredFiles, clientJar, libraryFiles, assetIndexFile,
                   missingFiles, stages, currentStageIndex, offset, failures,
                   lastPass>>
    /\ UNCHANGED <<xferVars, syncVars, valVars, streamVars, launchVars, ruleVars>>

\* await Promise.all(...) of the window resolved: the next window or
\* return completed
DownloadAssetsWindowResolves ==
    /\ ipc = "assetsWindow"
    /\ AllSettled(pending, Window(missingFiles.assets, offset,
                                  CONCURRENT_DOWNLOADS * 2))
    /\ IF offset + CONCURRENT_DOWNLOADS * 2 < Len(missingFiles.assets)
       THEN /\ offset' = offset + CONCURRENT_DOWNLOADS * 2
            /\ ipc' = "assets"
            /\ UNCHANGED currentStageIndex
       ELSE /\ offset' = 0
            /\ currentStageIndex' = currentStageIndex + 1
            /\ ipc' = "complete"
    /\ UNCHANGED <<requiredFiles, clientJar, libraryFiles, assetIndexFile,
                   assetObjects, missingFiles, stages, pending, failures,
                   stageCompleted, stragglers, lastPass>>
    /\ UNCHANGED <<lastEvent, stageError, exhausted>>
    /\ UNCHANGED <<xferVars, syncVars, valVars, streamVars, launchVars, ruleVars>>

\* stages[currentStageIndex].name, the stage downloadAll is in
RunningStage ==
    IF currentStageIndex < Len(stages) THEN stages[currentStageIndex + 1].name
    ELSE "none"

\* a transfer left in flight by a rejected window settles on its own; while
\* the call that started it has not been left, its failure counts among the
\* entries of the window whose retries are exhausted
StragglerSettles(path) ==
    /\ path \in stragglers
    /\ \/ /\ assetObjects' = [assetObjects EXCEPT ![path] = GoodBytes]
          /\ UNCHANGED exhausted
       \/ /\ assetObjects' = [assetObjects EXCEPT ![path] = Absent]
          /\ exhausted' = IF ipc = "failed" /\ RunningStage = "assets"
                          THEN exhausted \cup {path}
                          ELSE exhausted
    /\ stragglers' = stragglers \ {path}
    /\ UNCHANGED <<ipc, requiredFiles, clientJar, libraryFiles, assetIndexFile,
                   missingFiles, stages, currentStageIndex, offset, pending,
                   failures, stageCompleted, lastPass, lastEvent, stageError>>
    /\ UNCHANGED <<xferVars, syncVars, valVars, streamVars, launchVars, ruleVars>>

\* a last event that still carries the name of the assets stage
CompleteEventOfStage ==
    [stage |-> "assets", stageProgress |-> 100, overallProgress |-> 100,
     completed |-> 0, total |-> 0]

\* the completion event: {stage: 'complete', overallProgress: 100}
CompleteEvent ==
    [stage |-> "complete", stageProgress |-> 100, overallProgress |-> 100,
     completed |-> 0, total |-> 0]

\* downloadAll reports 'complete' and returns true, downloadMinecraft
\* returns {success: true}
DownloadAllReturns ==
    /\ ipc = "complete"
    /\ lastEvent' = CompleteEvent
    /\ lastPass' = "success"
    /\ ipc' = "idle"
    /\ missingFiles' = NoMissing
    /\ stages' = <<>>
    /\ currentStageIndex' = 0
    /\ UNCHANGED <<requiredFiles, clientJar, libraryFiles, assetIndexFile,
                   assetObjects, offset, pending, failures, stageCompleted,
                   stragglers, stageError, exhausted>>
    /\ UNCHANGED <<xferVars, syncVars, valVars, streamVars, launchVars, ruleVars>>

\* a stage threw: downloadMinecraft rethrows
DownloadAllThrows ==
    /\ ipc = "failed"
    /\ lastPass' = "failed"
    /\ ipc' = "idle"
    /\ missingFiles' = NoMissing
    /\ stages' = <<>>
    /\ currentStageIndex' = 0
    /\ offset' = 0
    /\ stageCompleted' = 0
    /\ failures' = {}
    /\ UNCHANGED <<requiredFiles, clientJar, libraryFiles, assetIndexFile,
                   assetObjects, pending, stragglers, lastEvent, stageError,
                   exhausted>>
    /\ UNCHANGED <<xferVars, syncVars, valVars, streamVars, launchVars, ruleVars>>

\* another body than the one on disk
OtherBody(file) == CHOOSE b \in ServedBodies : b # file

\* between two passes something outside the launcher rewrites an installed file
ExternalChange ==
    /\ ipc = "idle"
    /\ \/ /\ clientJar # Absent
          /\ clientJar' = OtherBody(clientJar)
          /\ UNCHANGED <<libraryFiles, assetObjects>>
       \/ \E i \in 1..NumLibs :
             /\ libraryFiles[i] # Absent
             /\ libraryFiles' = [libraryFiles EXCEPT ![i] = OtherBody(@)]
             /\ UNCHANGED <<clientJar, assetObjects>>
       \/ \E j \in 1..NumAssets :
             /\ assetObjects[j] # Absent
             /\ assetObjects' = [assetObjects EXCEPT ![j] = OtherBody(@)]
             /\ UNCHANGED <<clientJar, libraryFiles>>
    /\ UNCHANGED <<ipc, requiredFiles, assetIndexFile, missingFiles, stages,
                   currentStageIndex, offset, pending, failures,
                   stageCompleted, stragglers, lastPass, lastEvent, stageError,
                   exhausted>>
    /\ UNCHANGED <<xferVars, syncVars, valVars, streamVars, launchVars, ruleVars>>

InstallNext ==
    \/ GetMissingFilesCall
    \/ DownloadAllBegins
    \/ ClientProgress
    \/ DownloadClient
    \/ DownloadLibrariesWindow
    \/ \E k \in 1..NumLibs : LibraryProgress(k)
    \/ \E k \in 1..NumLibs : LibrarySettles(k)
    \/ DownloadLibrariesWindowResolves
    \/ DownloadAssetIndexBegins
    \/ DownloadAssetIndex
    \/ DownloadAssetsWindow
    \/ \E k \in 1..NumAssets : AssetSettles(k)
    \/ DownloadAssetsWindowResolves
    \/ \E path \in 1..NumAssets : StragglerSettles(path)
    \/ DownloadAllReturns
    \/ DownloadAllThrows
    \/ ExternalChange

SpecInstall == InstallInit /\ [][InstallNext]_vars

\* =========================================================================
\* SpecBatch: downloadAll over lists longer than one window
\* =========================================================================

\* libraries and assets of the version
BatchLibs == 6
BatchAssets == 50

\* a version whose entries all publish a checksum
BatchRequiredFiles ==
    [version |-> "fabric-loader-1.20.1",
     client |-> [sha1 |-> Sha1(GoodBytes)],
     libraries |-> [i \in 1..BatchLibs |->
                       [path |-> i, sha1 |-> Sha1(GoodBytes)]],
     assets |-> [indexId |-> "5",
                 assets |-> [j \in 1..BatchAssets |->
                                [path |-> j, hash |-> Sha1(GoodBytes)]]]]

\* downloadMinecraft has validated an installation that holds or lacks the
\* client jar and lacks either every library or the asset index
BatchStart ==
    /\ ipc = "validated"
    /\ requiredFiles = BatchRequiredFiles
    /\ clientJar \in {Absent, GoodBytes}
    /\ \/ /\ libraryFiles = [i \in 1..BatchLibs |-> Absent]
          /\ assetIndexFile = IndexBody
       \/ /\ libraryFiles = [i \in 1..BatchLibs |-> GoodBytes]
          /\ assetIndexFile = Absent
    /\ assetObjects = [j \in 1..BatchAssets |-> Absent]
    /\ missingFiles = GetMissingFiles(clientJar, libraryFiles, assetIndexFile,
                                      requiredFiles)
    /\ stages = <<>>
    /\ currentStageIndex = 0
    /\ offset = 0
    /\ pending = {}
    /\ failures = {}
    /\ stageCompleted = 0
    /\ stragglers = {}
    /\ lastPass = "none"
    /\ lastEvent = NoEvent
    /\ stageError = {}
    /\ exhausted = {}

BatchInit ==
    /\ BatchStart /\ TransferIdle /\ SyncIdle /\ ValidateIdle
    /\ StreamIdle /\ LaunchIdle /\ RulesIdle

\* one call of downloadAll, followed until it has returned or thrown; the
\* transfers a rejected window leaves behind stay in flight
BatchNext ==
    \/ DownloadAllBegins
    \/ ClientProgress
    \/ DownloadClient
    \/ DownloadLibrariesWindow
    \/ \E k \in 1..BatchLibs : LibraryProgress(k)
    \/ \E k \in 1..BatchLibs : LibrarySettles(k)
    \/ DownloadLibrariesWindowResolves
    \/ DownloadAssetIndexBegins
    \/ DownloadAssetIndex
    \/ DownloadAssetsWindow
    \/ \E k \in 1..BatchAssets : AssetSettles(k)
    \/ DownloadAssetsWindowResolves
    \/ DownloadAllReturns
    \/ DownloadAllThrows

SpecBatch == BatchInit /\ [][BatchNext]_vars

\* =========================================================================
\* SpecManifest: downloadMinecraft from the asset index the host serves
\* =========================================================================

\* names of the objects of an asset index, in the order of Object.entries
AssetNames == <<"a.png", "b.png", "c.ogg">>

\* hashes an asset index can list; no host serves a body for the first
AssetHashes == {Sha1(<<1>>), Sha1(StaleBytes), Sha1(GoodBytes)}

\* assetIndex.objects: a hash for every name
AssetIndexObjects == [{AssetNames[k] : k \in 1..Len(AssetNames)} -> AssetHashes]

\* getAssets: one entry per name; the path `${hashPrefix}/${hash}` is a
\* one-to-one function of the hash and is represented by the hash
GetAssets(objects) ==
    [indexId |-> "5",
     assets |-> [k \in 1..Len(AssetNames) |->
                    [name |-> AssetNames[k],
                     hash |-> objects[AssetNames[k]],
                     path |-> objects[AssetNames[k]]]]]

\* an installation that holds the client jar and the libraries and nothing
\* under assets/; downloadMinecraft has not asked for the required files yet
ManifestStart ==
    /\ ipc = "manifest"
    /\ requiredFiles = [version |-> "fabric-loader-1.20.1",
                        client |-> [sha1 |-> Sha1(GoodBytes)],
                        libraries |-> <<>>,
                        assets |-> [indexId |-> "5", assets |-> <<>>]]
    /\ clientJar = GoodBytes
    /\ libraryFiles = [i \in 1..NumLibs |-> GoodBytes]
    /\ assetIndexFile = Absent
    /\ assetObjects = [h \in AssetHashes |-> Absent]
    /\ missingFiles = NoMissing
    /\ stages = <<>>
    /\ currentStageIndex = 0
    /\ offset = 0
    /\ pending = {}
    /\ failures = {}
    /\ stageCompleted = 0
    /\ stragglers = {}
    /\ lastPass = "none"
    /\ lastEvent = NoEvent
    /\ stageError = {}
    /\ exhausted = {}

ManifestInit ==
    /\ ManifestStart /\ TransferIdle /\ SyncIdle /\ ValidateIdle
    /\ StreamIdle /\ LaunchIdle /\ RulesIdle

\* downloadMinecraft: const requiredFiles = await getAllRequiredFiles(...)
GetAllRequiredFilesCall ==
    /\ ipc = "manifest"
    /\ \E objects \in AssetIndexObjects :
          requiredFiles' =
              [requiredFiles EXCEPT
                  !.libraries = [i \in 1..NumLibs |->
                                    [path |-> i, sha1 |-> Sha1(GoodBytes)]],
                  !.assets = GetAssets(objects)]
    /\ ipc' = "idle"
    /\ UNCHANGED <<clientJar, libraryFiles, assetIndexFile, assetObjects,
                   missingFiles, stages, currentStageIndex, offset, pending,
                   failures, stageCompleted, stragglers, lastPass, lastEvent,
                   stageError, exhausted>>
    /\ UNCHANGED <<xferVars, syncVars, valVars, streamVars, launchVars, ruleVars>>

\* one call of downloadMinecraft after another, over the same required files
ManifestNext ==
    \/ GetAllRequiredFilesCall
    \/ GetMissingFilesCall
    \/ DownloadAllBegins
    \/ DownloadAssetIndexBegins
    \/ DownloadAssetIndex
    \/ DownloadAssetsWindow
    \/ \E k \in 1..Len(AssetNames) : AssetSettles(k)
    \/ DownloadAssetsWindowResolves
    \/ DownloadAllReturns
    \/ DownloadAllThrows

SpecManifest == ManifestInit /\ [][ManifestNext]_vars

\* =========================================================================
\* SpecStream: the 'data' handler downloadFile installs for onProgress
\* =========================================================================

\* chunks of the longest response body
StreamChunks == 3

\* bytes of a chunk, in units of one block
ChunkLength == 1

\* if (timeDiff >= 0.5), in milliseconds
PROGRESS_TICK_MS == 500

\* milliseconds between the arrival of two chunks
Elapsed == {0, 100, 250, 500}

\* the response has arrived: lastProgressTime = Date.now(), taken as time 0
StreamInit ==
    /\ dpc = "data"
    /\ now = 0
    /\ totalSize \in {0, StreamChunks * ChunkLength}
    /\ lastProgressTime = 0
    /\ downloadedSize = 0
    /\ lastDownloadedSize = 0
    /\ reports = <<>>
    /\ TransferIdle /\ InstallIdle /\ SyncIdle /\ ValidateIdle /\ LaunchIdle
    /\ RulesIdle

\* response.data.on('data', (chunk) => {...}): the sizes and the speed of
\* the tick are updated and onProgress is called; the speed is kept as the
\* pair (bytes, milliseconds) of its quotient
DataChunk ==
    /\ dpc = "data"
    /\ Len(reports) < StreamChunks
    /\ \E elapsed \in Elapsed :
          LET t == now + elapsed
              size == downloadedSize + ChunkLength
              timeDiff == t - lastProgressTime
              tick == timeDiff >= PROGRESS_TICK_MS
          IN /\ now' = t
             /\ downloadedSize' = size
             /\ lastProgressTime' = IF tick THEN t ELSE lastProgressTime
             /\ lastDownloadedSize' = IF tick THEN size ELSE lastDownloadedSize
             /\ reports' = Append(reports,
                    [at |-> t,
                     downloaded |-> size,
                     total |-> totalSize,
                     percentage |-> IF totalSize > 0
                                    THEN StagePercent(size, totalSize) ELSE 0,
                     speed |-> IF tick THEN <<size - lastDownloadedSize, timeDiff>>
                               ELSE <<0, 1>>])
    /\ UNCHANGED <<dpc, totalSize>>
    /\ UNCHANGED <<xferVars, instVars, syncVars, valVars, launchVars, ruleVars>>

\* the body ends: pipeline resolves
StreamEnd ==
    /\ dpc = "data"
    /\ dpc' = "end"
    /\ UNCHANGED <<now, totalSize, lastProgressTime, downloadedSize,
                   lastDownloadedSize, reports>>
    /\ UNCHANGED <<xferVars, instVars, syncVars, valVars, launchVars, ruleVars>>

StreamNext ==
    \/ DataChunk
    \/ StreamEnd

SpecStream == StreamInit /\ [][StreamNext]_vars

\* =========================================================================
\* SpecLaunch
\* =========================================================================

\* 'launch-game' requests of one session of the launcher
MaxRequests == 3
\* files one modpack sync reports as downloaded
MaxModFiles == 2

\* the first statement of the handler, with the flag as it is on arrival
GameAlreadyRunningNever(running) == FALSE
GameAlreadyRunning(running) == running

\* the event that ends the modpack block
SyncTerminalComplete(ok) == "complete"
SyncTerminal(ok) == IF ok THEN "complete" ELSE "error"

LaunchInit ==
    /\ LaunchIdle /\ RulesIdle
    /\ TransferIdle /\ InstallIdle /\ SyncIdle /\ ValidateIdle /\ StreamIdle

\* ipcMain.handle('launch-game'): the handler up to its first await. A
\* request that finds the flag set is answered at once; any other sets the
\* flag and calls launchMinecraft.
LaunchGame ==
    /\ Len(lpc) < MaxRequests
    /\ IF GameAlreadyRunning(gameRunning)
       THEN /\ lpc' = Append(lpc, "done")
            /\ replies' = Append(replies,
                   [success |-> FALSE, error |-> "Game is already running"])
            /\ UNCHANGED <<gameRunning, launched>>
       ELSE /\ gameRunning' = TRUE
            /\ launched' = launched + 1
            /\ lpc' = Append(lpc, "start")
            /\ replies' = Append(replies,
                   [success |-> FALSE, error |-> "pending"])
    /\ proc' = Append(proc, "none")
    /\ modpackEvents' = Append(modpackEvents, <<>>)
    /\ syncOutcome' = Append(syncOutcome, "none")
    /\ UNCHANGED <<xferVars, instVars, syncVars, valVars, streamVars,
                   ruleVars>>

\* launchMinecraft from loadConfig to the modpack block: with the modpack
\* enabled it reports 'checking' and calls sync
LaunchMinecraftStarts(i) ==
    /\ lpc[i] = "start"
    /\ \E enabled \in BOOLEAN :
          IF enabled
          THEN /\ lpc' = [lpc EXCEPT ![i] = "sync"]
               /\ modpackEvents' =
                      [modpackEvents EXCEPT ![i] = <<"checking">>]
          ELSE /\ lpc' = [lpc EXCEPT ![i] = "build"]
               /\ UNCHANGED modpackEvents
    /\ UNCHANGED <<gameRunning, proc, replies, syncOutcome, launched>>
    /\ UNCHANGED <<xferVars, instVars, syncVars, valVars, streamVars,
                   ruleVars>>

\* the progress callback handed to sync: one 'downloading' per file
SyncDownloading(i) ==
    /\ lpc[i] = "sync"
    /\ Len(modpackEvents[i]) < 1 + MaxModFiles
    /\ modpackEvents' =
           [modpackEvents EXCEPT ![i] = Append(@, "downloading")]
    /\ UNCHANGED <<gameRunning, lpc, proc, replies, syncOutcome, launched>>
    /\ UNCHANGED <<xferVars, instVars, syncVars, valVars, streamVars,
                   ruleVars>>

\* sync settles: 'complete' after it resolved, 'error' from the catch of the
\* block after it rejected; the catch swallows the error and launchMinecraft
\* goes on to the required files and the arguments
SyncSettled(i) ==
    /\ lpc[i] = "sync"
    /\ \E ok \in BOOLEAN :
          /\ syncOutcome' =
                 [syncOutcome EXCEPT ![i] = IF ok THEN "resolved"
                                                  ELSE "rejected"]
          /\ modpackEvents' =
                 [modpackEvents EXCEPT ![i] = Append(@, SyncTerminal(ok))]
          /\ lpc' = [lpc EXCEPT ![i] = "build"]
    /\ UNCHANGED <<gameRunning, proc, replies, launched>>
    /\ UNCHANGED <<xferVars, instVars, syncVars, valVars, streamVars,
                   ruleVars>>

\* launchMinecraft throws (no Java, no configuration, no metadata, natives
\* that do not extract): the catch of the handler clears the flag and
\* answers with the error
LaunchFails(i) ==
    /\ lpc[i] \in {"start", "build"}
    /\ gameRunning' = FALSE
    /\ lpc' = [lpc EXCEPT ![i] = "done"]
    /\ replies' = [replies EXCEPT ![i] =
                      [success |-> FALSE, error |-> "launch failed"]]
    /\ UNCHANGED <<proc, modpackEvents, syncOutcome, launched>>
    /\ UNCHANGED <<xferVars, instVars, syncVars, valVars, streamVars,
                   ruleVars>>

\* the arguments are built and spawn returns a child process; the handler
\* registers its 'exit' listener and answers {success: true}
SpawnGame(i) ==
    /\ lpc[i] = "build"
    /\ proc' = [proc EXCEPT ![i] = "spawned"]
    /\ lpc' = [lpc EXCEPT ![i] = "done"]
    /\ replies' = [replies EXCEPT ![i] =
                      [success |-> TRUE, error |-> "none"]]
    /\ UNCHANGED <<gameRunning, modpackEvents, syncOutcome, launched>>
    /\ UNCHANGED <<xferVars, instVars, syncVars, valVars, streamVars,
                   ruleVars>>

\* 'exit' of the child process: the listener of the handler clears the flag
ProcessExit(i) ==
    /\ proc[i] = "spawned"
    /\ proc' = [proc EXCEPT ![i] = "exited"]
    /\ gameRunning' = FALSE
    /\ UNCHANGED <<lpc, replies, modpackEvents, syncOutcome, launched>>
    /\ UNCHANGED <<xferVars, instVars, syncVars, valVars, streamVars,
                   ruleVars>>

\* the child process could not be started: the process object emits 'error'
\* and no 'exit'. The only listener of 'error' is the one launchMinecraft
\* registered, which logs and throws inside the event.
ProcessError(i) ==
    /\ proc[i] = "spawned"
    /\ proc' = [proc EXCEPT ![i] = "failed"]
    /\ UNCHANGED <<gameRunning, lpc, replies, modpackEvents, syncOutcome,
                   launched>>
    /\ UNCHANGED <<xferVars, instVars, syncVars, valVars, streamVars,
                   ruleVars>>

LaunchNext ==
    \/ LaunchGame
    \/ \E i \in 1..Len(lpc) :
          \/ LaunchMinecraftStarts(i)
          \/ SyncDownloading(i)
          \/ SyncSettled(i)
          \/ LaunchFails(i)
          \/ SpawnGame(i)
          \/ ProcessExit(i)
          \/ ProcessError(i)

SpecLaunch == LaunchInit /\ [][LaunchNext]_vars

\* =========================================================================
\* SpecRules
\* =========================================================================

\* rules of one library entry
MaxRules == 2

\* the os object of a rule: absent, or present with or without a name (a
\* rule can constrain arch or version only); name "" stands for no name
OsRules ==
    {[present |-> FALSE, name |-> ""]}
        \cup {[present |-> TRUE, name |-> n] :
                  n \in {"", "windows", "osx", "linux"}}

\* a library entry of the version metadata: without a rules field, or with
\* a rules array of any length
Libs ==
    {NoRulesLib} \cup
    {[hasRules |-> TRUE, rules |-> r] :
        r \in UNION {[1..n -> [action : {"allow", "disallow"}, os : OsRules]]
                        : n \in 0..MaxRules}}

\* getOSName
GetOSName(p) ==
    IF p = "win32" THEN "windows"
    ELSE IF p = "darwin" THEN "osx"
    ELSE IF p = "linux" THEN "linux"
    ELSE "unknown"

\* isOSMatch: a name is compared with the name of the running system, an os
\* object without a name matches
IsOSMatch(osRule, p) ==
    IF osRule.name # "" THEN osRule.name = GetOSName(p) ELSE TRUE

\* one entry of metadata.libraries under one value of process.platform
RulesInit ==
    /\ gpc = "lib"
    /\ platform \in {"win32", "darwin", "linux", "freebsd"}
    /\ libEntry \in Libs
    /\ ruleIndex = 0
    /\ include = FALSE
    /\ included = <<>>
    /\ TransferIdle /\ InstallIdle /\ SyncIdle /\ ValidateIdle
    /\ StreamIdle /\ LaunchIdle

\* getLibraries, one entry of metadata.libraries: if (libEntry.rules) include =
\* false and the rules are walked; an entry without rules goes on to be
\* pushed
GetLibrariesEntry ==
    /\ gpc = "lib"
    /\ IF libEntry.hasRules
       THEN /\ include' = FALSE
            /\ ruleIndex' = 1
            /\ gpc' = "rules"
       ELSE /\ gpc' = "push"
            /\ UNCHANGED <<include, ruleIndex>>
    /\ UNCHANGED <<platform, libEntry, included>>
    /\ UNCHANGED <<xferVars, instVars, syncVars, valVars, streamVars,
                   launchVars>>

\* one iteration of for (const rule of libEntry.rules)
EvaluateRule ==
    /\ gpc = "rules"
    /\ ruleIndex <= Len(libEntry.rules)
    /\ LET rule == libEntry.rules[ruleIndex] IN
       include' =
           IF rule.action = "allow"
           THEN IF ~rule.os.present \/ IsOSMatch(rule.os, platform)
                THEN TRUE ELSE include
           ELSE IF rule.action = "disallow"
           THEN IF ~rule.os.present \/ IsOSMatch(rule.os, platform)
                THEN FALSE ELSE include
           ELSE include
    /\ ruleIndex' = ruleIndex + 1
    /\ UNCHANGED <<gpc, platform, libEntry, included>>
    /\ UNCHANGED <<xferVars, instVars, syncVars, valVars, streamVars,
                   launchVars>>

\* if (!include) continue
RulesEvaluated ==
    /\ gpc = "rules"
    /\ ruleIndex > Len(libEntry.rules)
    /\ gpc' = IF ~include THEN "done" ELSE "push"
    /\ UNCHANGED <<platform, libEntry, ruleIndex, include, included>>
    /\ UNCHANGED <<xferVars, instVars, syncVars, valVars, streamVars,
                   launchVars>>

\* libraries.push of the entry
PushLibrary ==
    /\ gpc = "push"
    /\ included' = Append(included, libEntry)
    /\ gpc' = "done"
    /\ UNCHANGED <<platform, libEntry, ruleIndex, include>>
    /\ UNCHANGED <<xferVars, instVars, syncVars, valVars, streamVars,
                   launchVars>>

RulesNext ==
    \/ GetLibrariesEntry
    \/ EvaluateRule
    \/ RulesEvaluated
    \/ PushLibrary

SpecRules == RulesInit /\ [][RulesNext]_vars

\* =========================================================================
\* SpecSync
\* =========================================================================

\* A relative path is its sequence of segments: config/b.txt is
\* <<"config", "b.txt">>.
VOLATILE_FILES ==
    {<<"config", "sodium-fingerprint.json">>,
     <<"config", "voicechat", "username-cache.json">>,
     <<"config", "jade", "usernamecache.json">>,
     <<"config", "yosbr", "options.txt">>}

foldersToClean == <<"mods", "config", "resourcepacks", "shaderpacks">>

\* paths a manifest of the model can list, in manifest order
ManifestOrder ==
    <<<<"mods", "a.jar">>, <<"config", "b.txt">>,
      <<"config", "sodium-fingerprint.json">>,
      <<"kubejs", "config", "jade", "usernamecache.json">>>>

\* paths that can exist under the game directory
LocalPaths ==
    {ManifestOrder[k] : k \in 1..Len(ManifestOrder)}
        \cup {<<"mods", "old.jar">>, <<"options.txt">>}

\* file names of the model that end in '.jar'
JarNames == {"a.jar", "old.jar"}

\* sha1 of a file that does not exist: getFileSha1 returns null
NullSha1 == -1

\* String.prototype.endsWith, on segments
EndsWith(path, suffix) ==
    /\ Len(path) >= Len(suffix)
    /\ SubSeq(path, Len(path) - Len(suffix) + 1, Len(path)) = suffix

\* a validator that skips nothing
IsVolatileNever(path) == FALSE

\* VOLATILE_FILES.some(v => file.path === v || file.path.endsWith(v))
IsVolatile(path) ==
    \E v \in VOLATILE_FILES : path = v \/ EndsWith(path, v)

\* a check that takes every file for a config file
IsJarFileNever(path) == FALSE

\* file.path.endsWith('.jar')
IsJarFile(path) == path[Len(path)] \in JarNames

\* getFileSha1(filePath)
GetFileSha1(file) == IF file = Absent THEN NullSha1 ELSE Sha1(file)

\* the documents the manifest URL can answer with; hasFiles is FALSE for a
\* body without a files list
Manifests ==
    {[hasFiles |-> TRUE,
      files |-> LET listed == SelectSeq([k \in 1..Len(ManifestOrder) |-> k],
                                        LAMBDA k : pick[k] # NullSha1)
                IN [n \in 1..Len(listed) |->
                       [path |-> ManifestOrder[listed[n]],
                        sha1 |-> pick[listed[n]]]]]
        : pick \in [1..Len(ManifestOrder) ->
                       {NullSha1, EmptySha1, Sha1(GoodBytes)}]}
    \cup {[hasFiles |-> FALSE, files |-> <<>>]}

\* validateLocalFiles(manifest): the entries scheduled for download
ValidateLocalFiles(m, dir) ==
    SelectSeq(m.files,
              LAMBDA file : /\ ~IsVolatile(file.path)
                            /\ GetFileSha1(dir[file.path]) # file.sha1)

\* a set of manifest paths that was never filled
ManifestPathsEmpty(m) == {}

\* new Set(manifest.files.map(f => f.path))
ManifestPaths(m) == {m.files[k].path : k \in 1..Len(m.files)}

\* the files scanAndDelete meets below a folder, at any depth
FilesUnder(dir, folder) ==
    {p \in LocalPaths : Len(p) > 1 /\ p[1] = folder /\ dir[p] # Absent}

\* the host of the manifest URL and the host of the files it lists
Hosts == {"manifest", "files"}

\* timeout of an axios request that passes none (the axios default)
REQUEST_TIMEOUT_MS == 0

\* a request settles when its host answers or its timeout, if it has one,
\* fires
Settles(host, timeout, hung) == host \notin hung \/ timeout > 0

SyncStart ==
    /\ spc = "start"
    /\ manifestUrl \in {"", "https://host/modpack.json"}
    /\ manifest = <<>>
    /\ gameDir \in [LocalPaths -> {Absent, GoodBytes, StaleBytes}]
    /\ updates = <<>>
    /\ fileIndex = 0
    /\ progress = <<>>
    /\ folderIndex = 0
    /\ scanned = {}
    /\ removed = {}
    /\ syncResult = NoResult
    /\ warned = {}
    /\ tries = 0
    /\ hungHosts \in SUBSET Hosts

SyncInit ==
    /\ SyncStart /\ TransferIdle /\ InstallIdle /\ ValidateIdle
    /\ StreamIdle /\ LaunchIdle /\ RulesIdle

\* a sync that goes on to fetch whatever the configuration holds
HasManifestUrlAlways(url) == TRUE

\* sync: !this.manifestUrl is false (the constructor stores the configured
\* string; the empty string is falsy)
HasManifestUrl(url) == url # ""

\* sync: if (!this.manifestUrl) return
SyncEnter ==
    /\ spc = "start"
    /\ IF ~HasManifestUrl(manifestUrl)
       THEN /\ syncResult' = [kind |-> "returned", value |-> "undefined"]
            /\ spc' = "done"
       ELSE /\ spc' = "fetch"
            /\ UNCHANGED syncResult
    /\ UNCHANGED <<manifestUrl, manifest, gameDir, updates, fileIndex,
                   progress, folderIndex, scanned, removed>>
    /\ UNCHANGED <<warned, tries, hungHosts>>
    /\ UNCHANGED <<xferVars, instVars, valVars, streamVars, launchVars, ruleVars>>

\* fetchRemoteManifest: axios.get(this.manifestUrl), no timeout given,
\* resolves with response.data or rejects
FetchRemoteManifest ==
    /\ spc = "fetch"
    /\ Settles("manifest", REQUEST_TIMEOUT_MS, hungHosts)
    /\ \/ /\ \E m \in Manifests : manifest' = m
          /\ spc' = "validate"
          /\ UNCHANGED syncResult
       \/ /\ syncResult' = [kind |-> "threw",
                            error |-> "Failed to fetch modpack manifest"]
          /\ spc' = "failed"
          /\ UNCHANGED manifest
    /\ UNCHANGED <<manifestUrl, gameDir, updates, fileIndex, progress,
                   folderIndex, scanned, removed>>
    /\ UNCHANGED <<warned, tries, hungHosts>>
    /\ UNCHANGED <<xferVars, instVars, valVars, streamVars, launchVars, ruleVars>>

\* getFileSha1 rethrows every readFile error other than ENOENT
ReadFileErrors == {"EACCES"}

\* const updates = await this.validateLocalFiles(manifest); the call throws
\* when getFileSha1 throws on one of the entries it hashes
ValidateLocalFilesCall ==
    /\ spc = "validate"
    /\ \/ /\ updates' = ValidateLocalFiles(manifest, gameDir)
          /\ fileIndex' = 1
          /\ spc' = "download"
          /\ UNCHANGED syncResult
       \/ /\ \E k \in 1..Len(manifest.files) :
                ~IsVolatile(manifest.files[k].path)
          /\ \E e \in ReadFileErrors :
                syncResult' = [kind |-> "threw", error |-> e]
          /\ spc' = "failed"
          /\ UNCHANGED <<updates, fileIndex>>
    /\ UNCHANGED <<manifestUrl, manifest, gameDir, progress, folderIndex,
                   scanned, removed>>
    /\ UNCHANGED <<warned, tries, hungHosts>>
    /\ UNCHANGED <<xferVars, instVars, valVars, streamVars, launchVars, ruleVars>>

\* a progress event built before completed++
CompletedBefore(index) == index - 1

\* completed after completed++ in the iteration over filesToDownload[index]
\* (1-based): the files downloaded and checked so far
Completed(index) == index

\* one iteration of the for loop of downloadUpdates: downloadFile, then the
\* hash check that is fatal for a jar and a warning for anything else
DownloadUpdatesFile ==
    /\ spc = "download"
    /\ fileIndex <= Len(updates)
    /\ LET file == updates[fileIndex] IN
       \/ \E e \in (IF "files" \in hungHosts THEN {TimedOut}
                   ELSE DownloadFileErrors) :
             /\ Settles("files", TIMEOUT_MS, hungHosts)
             /\ gameDir' = [gameDir EXCEPT ![file.path] = Absent]
             /\ syncResult' = [kind |-> "threw", error |-> e]
             /\ spc' = "failed"
             /\ tries' = tries + 1
             /\ UNCHANGED <<fileIndex, progress>>
       \/ \E body \in ServedBodies :
             /\ "files" \notin hungHosts
             /\ gameDir' = [gameDir EXCEPT ![file.path] = body]
             /\ IF Sha1(body) # file.sha1 /\ IsJarFile(file.path)
                THEN /\ syncResult' = [kind |-> "threw",
                                       error |-> "Verification failed"]
                     /\ spc' = "failed"
                     /\ tries' = tries + 1
                     /\ UNCHANGED <<fileIndex, progress>>
                ELSE /\ fileIndex' = fileIndex + 1
                     /\ tries' = 0
                     /\ progress' = Append(progress,
                                           [current |-> Completed(fileIndex),
                                            total |-> Len(updates)])
                     /\ UNCHANGED <<spc, syncResult>>
    /\ UNCHANGED <<manifestUrl, manifest, updates, folderIndex, scanned,
                   removed, warned, hungHosts>>
    /\ UNCHANGED <<xferVars, instVars, valVars, streamVars, launchVars, ruleVars>>

\* a call of downloadUpdates that is not awaited
LoopFinishedAlways(index, list) == TRUE

\* the for loop of downloadUpdates has run through filesToDownload
LoopFinished(index, list) == index > Len(list)

\* downloadUpdates returns; cleanupExtraFiles builds manifestPaths, which
\* throws a TypeError when the manifest has no files list
DownloadUpdatesReturns ==
    /\ spc = "download"
    /\ LoopFinished(fileIndex, updates)
    /\ IF manifest.hasFiles
       THEN /\ folderIndex' = 1
            /\ spc' = "cleanup"
            /\ UNCHANGED syncResult
       ELSE /\ syncResult' = [kind |-> "threw", error |-> "TypeError"]
            /\ spc' = "failed"
            /\ UNCHANGED folderIndex
    /\ scanned' = {}
    /\ UNCHANGED <<manifestUrl, manifest, gameDir, updates, fileIndex,
                   progress, removed>>
    /\ UNCHANGED <<warned, tries, hungHosts>>
    /\ UNCHANGED <<xferVars, instVars, valVars, streamVars, launchVars, ruleVars>>

\* scanAndDelete visits one file of the current folder: a file whose path is
\* not in manifestPaths is unlinked; a failing unlink ends the scan of the
\* folder, cleanupExtraFiles logs a warning and goes on with the next folder
ScanAndDeleteFile ==
    /\ spc = "cleanup"
    /\ folderIndex <= Len(foldersToClean)
    /\ \E p \in FilesUnder(gameDir, foldersToClean[folderIndex]) \ scanned :
          IF p \in ManifestPaths(manifest)
          THEN /\ scanned' = scanned \cup {p}
               /\ UNCHANGED <<gameDir, removed, folderIndex, warned>>
          ELSE \/ /\ gameDir' = [gameDir EXCEPT ![p] = Absent]
                  /\ removed' = removed \cup {p}
                  /\ scanned' = scanned \cup {p}
                  /\ UNCHANGED <<folderIndex, warned>>
               \/ /\ folderIndex' = folderIndex + 1
                  /\ scanned' = {}
                  /\ warned' = warned \cup {foldersToClean[folderIndex]}
                  /\ UNCHANGED <<gameDir, removed>>
    /\ UNCHANGED <<spc, manifestUrl, manifest, updates, fileIndex, progress,
                   syncResult, tries, hungHosts>>
    /\ UNCHANGED <<xferVars, instVars, valVars, streamVars, launchVars, ruleVars>>

\* scanAndDelete has visited every file of the folder (or readdir threw
\* ENOENT): the next folder
CleanupNextFolder ==
    /\ spc = "cleanup"
    /\ folderIndex <= Len(foldersToClean)
    /\ FilesUnder(gameDir, foldersToClean[folderIndex]) \subseteq scanned
    /\ folderIndex' = folderIndex + 1
    /\ scanned' = {}
    /\ UNCHANGED <<spc, manifestUrl, manifest, gameDir, updates, fileIndex,
                   progress, removed, syncResult>>
    /\ UNCHANGED <<warned, tries, hungHosts>>
    /\ UNCHANGED <<xferVars, instVars, valVars, streamVars, launchVars, ruleVars>>

\* cleanupExtraFiles returned: return manifest
SyncReturns ==
    /\ spc = "cleanup"
    /\ folderIndex > Len(foldersToClean)
    /\ syncResult' = [kind |-> "returned", value |-> "manifest"]
    /\ spc' = "done"
    /\ UNCHANGED <<manifestUrl, manifest, gameDir, updates, fileIndex,
                   progress, folderIndex, scanned, removed>>
    /\ UNCHANGED <<warned, tries, hungHosts>>
    /\ UNCHANGED <<xferVars, instVars, valVars, streamVars, launchVars, ruleVars>>

SyncNext ==
    \/ SyncEnter
    \/ FetchRemoteManifest
    \/ ValidateLocalFilesCall
    \/ DownloadUpdatesFile
    \/ DownloadUpdatesReturns
    \/ ScanAndDeleteFile
    \/ CleanupNextFolder
    \/ SyncReturns

SpecSync == SyncInit /\ [][SyncNext]_vars

\* =========================================================================
\* SpecValidate
\* =========================================================================

\* calls of a validator followed between two changes of the tree
MaxCalls == 2

\* what a file of the tree can hold
FileStates == {Absent, GoodBytes, StaleBytes}

\* the files the validators look at
localFiles == <<clientJar, libraryFiles, assetIndexFile, assetObjects, gameDir>>

\* getInstallationStatus of the launcher UI: the installation to validate
ValidateStartInstall ==
    /\ vside = "install"
    /\ ipc = "off"
    /\ requiredFiles \in RequiredFilesChoices
    /\ clientJar \in FileStates
    /\ libraryFiles \in [1..NumLibs -> FileStates]
    /\ assetIndexFile \in {Absent, IndexBody}
    /\ assetObjects \in [1..NumAssets -> {Absent, GoodBytes}]
    /\ missingFiles = NoMissing
    /\ stages = <<>>
    /\ currentStageIndex = 0
    /\ offset = 0
    /\ pending = {}
    /\ failures = {}
    /\ stageCompleted = 0
    /\ stragglers = {}
    /\ lastPass = "none"
    /\ lastEvent = [stage |-> "none", stageProgress |-> 0,
                    overallProgress |-> 0, completed |-> 0, total |-> 0]
    /\ stageError = {}
    /\ exhausted = {}
    /\ SyncIdle

\* validateLocalFiles(manifest) of a ModpackManager over its game directory
ValidateStartModpack ==
    /\ vside = "modpack"
    /\ spc = "off"
    /\ manifestUrl = "https://host/modpack.json"
    /\ manifest \in Manifests
    /\ gameDir \in [LocalPaths -> FileStates]
    /\ updates = <<>>
    /\ fileIndex = 0
    /\ progress = <<>>
    /\ folderIndex = 0
    /\ scanned = {}
    /\ removed = {}
    /\ syncResult = NoResult
    /\ warned = {}
    /\ tries = 0
    /\ hungHosts = {}
    /\ InstallIdle

ValidateInit ==
    /\ plans = <<>>
    /\ status = NoStatus
    /\ TransferIdle
    /\ StreamIdle
    /\ LaunchIdle /\ RulesIdle
    /\ \/ ValidateStartInstall
       \/ ValidateStartModpack

\* a read that consumes the file it reads
ReadFileConsumes(file) == Absent

\* what fs.access and fs.readFile leave of the file they are given
ReadFile(file) == file

\* a classification that looks at the client jar only
InstallationStateByClient(totalMissing, missingClient) ==
    IF missingClient THEN "needs_install" ELSE "ready"

\* the if / else if / else of getInstallationStatus
InstallationState(totalMissing, missingClient) ==
    IF totalMissing = 0 THEN "ready"
    ELSE IF missingClient THEN "needs_install"
    ELSE "needs_update"

\* the object getInstallationStatus returns for a report of getMissingFiles,
\* with the installed flag checkInstallation derives from it
GetInstallationStatus(missing) ==
    LET missingClient == missing.client # <<>>
        missingLibraries == Len(missing.libraries)
        missingAssets == Len(missing.assets)
        missingAssetIndex == missing.assetIndex # "null"
        totalMissing == (IF missingClient THEN 1 ELSE 0) + missingLibraries
                           + missingAssets
                           + (IF missingAssetIndex THEN 1 ELSE 0)
        state == InstallationState(totalMissing, missingClient)
    IN [success |-> TRUE,
        state |-> state,
        missingClient |-> missingClient,
        missingLibraries |-> missingLibraries,
        missingAssets |-> missingAssets,
        missingAssetIndex |-> missingAssetIndex,
        totalMissing |-> totalMissing,
        installed |-> state = "ready"]

\* getInstallationStatus: getMissingFiles(gameDir, requiredFiles) looks at
\* the client jar, at every library and at the asset index
GetInstallationStatusCall ==
    /\ vside = "install"
    /\ Len(plans) < MaxCalls
    /\ plans' = Append(plans, GetMissingFiles(clientJar, libraryFiles,
                                              assetIndexFile, requiredFiles))
    /\ status' = GetInstallationStatus(
                     GetMissingFiles(clientJar, libraryFiles, assetIndexFile,
                                     requiredFiles))
    /\ clientJar' = ReadFile(clientJar)
    /\ libraryFiles' = [i \in 1..NumLibs |-> ReadFile(libraryFiles[i])]
    /\ assetIndexFile' = ReadFile(assetIndexFile)
    /\ UNCHANGED <<ipc, requiredFiles, assetObjects, missingFiles, stages,
                   currentStageIndex, offset, pending, failures,
                   stageCompleted, stragglers, lastPass, lastEvent,
                   stageError, exhausted>>
    /\ UNCHANGED <<xferVars, syncVars, vside, streamVars, launchVars, ruleVars>>

\* getInstallationStatus: loadConfig or getAllRequiredFiles throws and the
\* catch block answers
GetInstallationStatusThrows ==
    /\ vside = "install"
    /\ status' = [success |-> FALSE, state |-> "error", installed |-> FALSE]
    /\ UNCHANGED <<vside, plans>>
    /\ UNCHANGED <<xferVars, instVars, syncVars, streamVars, launchVars, ruleVars>>

\* validateLocalFiles(manifest) hashes the local file of every entry it does
\* not skip
ValidateLocalFilesAgain ==
    /\ vside = "modpack"
    /\ Len(plans) < MaxCalls
    /\ plans' = Append(plans, ValidateLocalFiles(manifest, gameDir))
    /\ gameDir' = [p \in LocalPaths |->
                      IF p \in ManifestPaths(manifest) /\ ~IsVolatile(p)
                      THEN ReadFile(gameDir[p]) ELSE gameDir[p]]
    /\ UNCHANGED <<spc, manifestUrl, manifest, updates, fileIndex, progress,
                   folderIndex, scanned, removed, syncResult, warned, tries,
                   hungHosts>>
    /\ UNCHANGED <<xferVars, instVars, vside, status, streamVars, launchVars, ruleVars>>

\* between two validations the game or the user writes or removes a file
TreeChanges ==
    /\ plans # <<>>
    /\ plans' = <<>>
    /\ status' = NoStatus
    /\ \/ /\ vside = "install"
          /\ \/ /\ clientJar' \in FileStates \ {clientJar}
                /\ UNCHANGED <<libraryFiles, assetIndexFile>>
             \/ /\ \E i \in 1..NumLibs : \E b \in FileStates \ {libraryFiles[i]} :
                      libraryFiles' = [libraryFiles EXCEPT ![i] = b]
                /\ UNCHANGED <<clientJar, assetIndexFile>>
             \/ /\ assetIndexFile' \in {Absent, IndexBody} \ {assetIndexFile}
                /\ UNCHANGED <<clientJar, libraryFiles>>
          /\ UNCHANGED gameDir
       \/ /\ vside = "modpack"
          /\ \E p \in LocalPaths : \E b \in FileStates \ {gameDir[p]} :
                gameDir' = [gameDir EXCEPT ![p] = b]
          /\ UNCHANGED <<clientJar, libraryFiles, assetIndexFile>>
    /\ UNCHANGED <<ipc, requiredFiles, assetObjects, missingFiles, stages,
                   currentStageIndex, offset, pending, failures,
                   stageCompleted, stragglers, lastPass, lastEvent,
                   stageError, exhausted>>
    /\ UNCHANGED <<spc, manifestUrl, manifest, updates, fileIndex, progress,
                   folderIndex, scanned, removed, syncResult, warned, tries,
                   hungHosts>>
    /\ UNCHANGED <<xferVars, vside, streamVars, launchVars, ruleVars>>

ValidateNext ==
    \/ GetInstallationStatusCall
    \/ GetInstallationStatusThrows
    \/ ValidateLocalFilesAgain
    \/ TreeChanges

SpecValidate == ValidateInit /\ [][ValidateNext]_vars

\* =========================================================================
\* Properties
\* =========================================================================

\* an entry still to be fetched: the file is absent, or the entry has a
\* fingerprint and the file's hash differs from it
StillNeeded(file, fingerprint) ==
    \/ file = Absent
    \/ fingerprint # EmptySha1 /\ Sha1(file) # fingerprint

\* the paths a list of entries names
PathsOf(entries) == {entries[k].path : k \in 1..Len(entries)}

\* C1: after sync has returned successfully, validateLocalFiles against the
\* same manifest and the unchanged game directory schedules nothing.
C1_SyncConverges ==
    (spc = "done" /\ manifestUrl # "" /\ syncResult.kind = "returned")
        => ValidateLocalFiles(manifest, gameDir) = <<>>

\* C2: the cleanup stage never deletes a file whose relative path matches a
\* VOLATILE_FILES pattern.
C2_VolatileSurvivesCleanup ==
    \A p \in removed : ~IsVolatile(p)

\* C3: after a failed downloadAll pass, getMissingFiles reports every
\* required file (client, library, asset index, asset) that is absent or
\* has a wrong hash.
C3_ResumeAfterFailedPass ==
    (ipc = "validated" /\ lastPass = "failed" /\ stragglers = {}) =>
        /\ StillNeeded(clientJar, requiredFiles.client.sha1)
              => missingFiles.client # <<>>
        /\ \A i \in 1..NumLibs :
              StillNeeded(libraryFiles[i], requiredFiles.libraries[i].sha1)
                 => i \in PathsOf(missingFiles.libraries)
        /\ assetIndexFile = Absent => missingFiles.assetIndex # "null"
        /\ \A j \in 1..NumAssets :
              StillNeeded(assetObjects[j], requiredFiles.assets.assets[j].hash)
                 => j \in PathsOf(missingFiles.assets)

\* C4: getMissingFiles lists every entry (client jar, library, asset) with a
\* non-empty fingerprint whose installed file no longer has that hash, and
\* never lists an entry with an empty fingerprint whose file exists.
C4_FingerprintGate ==
    (ipc = "validated" /\ stragglers = {}) =>
        /\ (clientJar # Absent
              /\ Sha1(clientJar) # requiredFiles.client.sha1)
              => missingFiles.client # <<>>
        /\ \A i \in 1..NumLibs :
              LET lib == requiredFiles.libraries[i] IN
              /\ (lib.sha1 # EmptySha1 /\ libraryFiles[i] # Absent
                    /\ Sha1(libraryFiles[i]) # lib.sha1)
                    => i \in PathsOf(missingFiles.libraries)
              /\ (lib.sha1 = EmptySha1 /\ libraryFiles[i] # Absent)
                    => i \notin PathsOf(missingFiles.libraries)
        /\ \A j \in 1..NumAssets :
              LET asset == requiredFiles.assets.assets[j] IN
              (assetObjects[j] # Absent /\ Sha1(assetObjects[j]) # asset.hash)
                 => j \in PathsOf(missingFiles.assets)

\* C5: downloadAndVerify is invoked at most MAX_RETRIES times and again only
\* after a throw; the sleep after failed attempt a < MAX_RETRIES is
\* RETRY_BASE_DELAY_MS * 2^(a-1); a call that succeeds after k failures made
\* exactly k+1 attempts and slept at least RETRY_BASE_DELAY_MS * (2^k - 1).
C5_RetryBackoff ==
    /\ calls <= MAX_RETRIES
    /\ calls <= Len(thrown) + 1
    /\ Len(delays) <= MAX_RETRIES - 1
    /\ Len(delays) <= Len(thrown)
    /\ calls >= 1 => Len(delays) >= calls - 1
    /\ \A a \in 1..Len(delays) : delays[a] = RETRY_BASE_DELAY_MS * 2^(a - 1)
    /\ retryResult.kind = "returned" =>
          /\ Len(thrown) < MAX_RETRIES
          /\ calls = Len(thrown) + 1
          /\ SumSeq(delays) >= RETRY_BASE_DELAY_MS * (2^Len(thrown) - 1)

\* a call that failed twice, slept twice and then succeeded
C5_Witness ==
    /\ retryResult.kind = "returned"
    /\ Len(thrown) = 2
    /\ Len(delays) = 2

\* C6: when all MAX_RETRIES attempts fail, downloadWithRetry throws an error
\* that carries the attempt count and the error of the last attempt, and the
\* batch call that contains the entry throws.
C6_RetryExhaustion ==
    /\ (Len(thrown) = MAX_RETRIES /\ tpc \in {"settling", "window", "batchDone"})
          => retryResult.kind = "threw"
    /\ retryResult.kind = "threw" =>
          /\ Len(thrown) = MAX_RETRIES
          /\ retryResult.attempts = MAX_RETRIES
          /\ retryResult.cause = thrown[Len(thrown)]
    /\ (tpc = "batchDone" /\ retryResult.kind = "threw")
          => batchResult.kind = "threw"

\* three attempts failed, the last one differently from the first, and the
\* batch threw
C6_Witness ==
    /\ tpc = "batchDone"
    /\ batchResult.kind = "threw"
    /\ Len(thrown) = MAX_RETRIES
    /\ thrown[1] # thrown[MAX_RETRIES]

\* C7: with a non-empty expected fingerprint downloadAndVerify returns only
\* when the written file has that hash, and on a mismatch the file is gone
\* and the call throws; with an empty fingerprint the call throws only when
\* the transfer itself failed.
C7_DownloadAndVerifyOutcome ==
    /\ (tpc = "attemptReturned" /\ expectedSha1 # EmptySha1) =>
          /\ destFile # Absent
          /\ Sha1(destFile) = expectedSha1
    /\ (tpc = "attemptReturned" /\ expectedSha1 = EmptySha1) =>
          /\ destFile = payload
    /\ (tpc = "attemptThrew" /\ error = Sha1Failed) =>
          /\ destFile = Absent
          /\ expectedSha1 # EmptySha1
          /\ received = Len(payload)
          /\ Sha1(payload) # expectedSha1
    /\ (tpc = "attemptThrew" /\ expectedSha1 = EmptySha1)
          => error \in DownloadFileErrors

\* a complete transfer whose bytes do not have the expected hash
C7_Witness ==
    /\ tpc = "attemptThrew"
    /\ error = Sha1Failed
    /\ payload # <<>>

C9_CorruptThenCleanRetry ==
    /\ (lastError = Sha1Failed /\ tpc \in {"loop", "request"})
          => destFile = Absent
    /\ tpc = "pipe" => destFile = SubSeq(payload, 1, received)
    /\ (retryResult.kind = "returned" /\ expectedSha1 # EmptySha1) =>
          /\ destFile # Absent
          /\ Sha1(destFile) = expectedSha1

\* the first attempt failed verification and the second one succeeded
C9_Witness ==
    /\ retryResult.kind = "returned"
    /\ thrown = <<Sha1Failed>>
    /\ destFile = GoodBytes
    /\ Sha1(destFile) = expectedSha1

\* C10: validateLibraries reports a library if and only if its file does not
\* exist, or its fingerprint is non-empty and the file's hash differs.
C10_ValidatorExactness ==
    ipc = "validated" =>
        \A i \in 1..NumLibs :
            i \in PathsOf(missingFiles.libraries)
                <=> StillNeeded(libraryFiles[i],
                                requiredFiles.libraries[i].sha1)

\* one library without fingerprint whose changed file is accepted, next to
\* one with a fingerprint whose changed file is reported
C10_Witness ==
    /\ ipc = "validated"
    /\ \E i, k \in 1..NumLibs :
          /\ requiredFiles.libraries[i].sha1 = EmptySha1
          /\ libraryFiles[i] = StaleBytes
          /\ i \notin PathsOf(missingFiles.libraries)
          /\ requiredFiles.libraries[k].sha1 # EmptySha1
          /\ libraryFiles[k] = StaleBytes
          /\ k \in PathsOf(missingFiles.libraries)

\* C11: validateLocalFiles schedules a non-volatile manifest entry exactly
\* when its local file is absent or its hash differs from a non-empty
\* fingerprint; an entry without fingerprint whose file exists is not
\* scheduled.  Read when validateLocalFiles has just returned.
C11_ExistenceOnlyEntries ==
    (spc = "download" /\ fileIndex = 1) =>
        \A k \in 1..Len(manifest.files) :
            LET file == manifest.files[k] IN
            ~IsVolatile(file.path) =>
                (file.path \in PathsOf(updates)
                    <=> StillNeeded(gameDir[file.path], file.sha1))

NamedByPattern(path, v) ==
    \/ path = v
    \/ /\ Len(path) > Len(v)
       /\ \A n \in 1..Len(v) : path[Len(path) - Len(v) + n] = v[n]

\* C13: the list validateLocalFiles returns holds no entry whose path equals
\* or ends with a VOLATILE_FILES pattern, whatever the state of the local
\* file.
C13_VolatileNeverPlanned ==
    spc \in {"download", "cleanup", "done", "failed"} =>
        \A k \in 1..Len(updates) : \A v \in VOLATILE_FILES :
            ~NamedByPattern(updates[k].path, v)

\* validateLocalFiles has returned for a manifest listing one path that is a
\* pattern and one that ends with a pattern, the first absent locally and
\* the second present with other bytes than the manifest names
C13_Witness ==
    /\ spc = "download"
    /\ fileIndex = 1
    /\ <<"config", "sodium-fingerprint.json">> \in ManifestPaths(manifest)
    /\ gameDir[<<"config", "sodium-fingerprint.json">>] = Absent
    /\ \E k \in 1..Len(manifest.files) :
          /\ manifest.files[k].path
                = <<"kubejs", "config", "jade", "usernamecache.json">>
          /\ manifest.files[k].sha1 = Sha1(GoodBytes)
    /\ gameDir[<<"kubejs", "config", "jade", "usernamecache.json">>]
          = StaleBytes
    /\ updates # <<>>

\* C14: after sync has returned successfully no non-volatile file is left
\* under mods, config, resourcepacks or shaderpacks whose path the manifest
\* does not list.
C14_CleanupRemovesOrphans ==
    (spc = "done" /\ manifestUrl # "" /\ syncResult.kind = "returned") =>
        \A n \in 1..Len(foldersToClean) :
            \A p \in FilesUnder(gameDir, foldersToClean[n]) :
                (\A v \in VOLATILE_FILES : ~NamedByPattern(p, v))
                    => p \in PathsOf(manifest.files)

\* C15: while cleanup runs, a file whose path the manifest lists keeps its
\* content, and so does every file that is not under mods, config,
\* resourcepacks or shaderpacks; the paths removed are unlisted paths under
\* these four folders.
C15_CleanupFrame ==
    [][spc = "cleanup" =>
          /\ \A p \in LocalPaths :
                (\/ p \in PathsOf(manifest.files)
                 \/ \A n \in 1..Len(foldersToClean) :
                       p[1] # foldersToClean[n])
                    => gameDir'[p] = gameDir[p]
          /\ \A p \in removed' :
                /\ p \notin PathsOf(manifest.files)
                /\ \E n \in 1..Len(foldersToClean) : p[1] = foldersToClean[n]
       ]_vars

\* cleanup has removed an unlisted jar while a listed file of the same folder
\* and an unlisted file of the root are still there
C15_Witness ==
    /\ spc = "done"
    /\ <<"mods", "old.jar">> \in removed
    /\ <<"mods", "a.jar">> \in PathsOf(manifest.files)
    /\ gameDir[<<"mods", "a.jar">>] # Absent
    /\ gameDir[<<"options.txt">>] # Absent
    /\ gameDir[<<"kubejs", "config", "jade", "usernamecache.json">>] # Absent
    /\ <<"kubejs", "config", "jade", "usernamecache.json">>
          \notin PathsOf(manifest.files)

\* the stage that can follow a stage of sync in one step
StageSuccessors(stage) ==
    CASE stage = "start" -> {"fetch"}
      [] stage = "fetch" -> {"validate", "failed"}
      [] stage = "validate" -> {"download", "failed"}
      [] stage = "download" -> {"download", "cleanup", "failed"}
      [] stage = "cleanup" -> {"cleanup", "done"}
      [] OTHER -> {}

\* C16: a sync with a manifest URL goes through fetch, validate, download
\* and cleanup in that order; cleanup starts only when every scheduled
\* download has completed, and a sync that failed in fetch, validate or
\* download has deleted nothing.
C16_StageOrder ==
    /\ [][manifestUrl # "" => spc' \in StageSuccessors(spc)]_vars
    /\ [](spc \in {"cleanup", "done"} /\ manifestUrl # ""
            => /\ Len(progress) = Len(updates)
               /\ \A k \in 1..Len(updates) :
                     gameDir[updates[k].path] # Absent
                        \/ updates[k].path \in removed)
    /\ [](spc \in {"fetch", "validate", "download"} => removed = {})
    /\ [](spc = "failed" => removed = {})

\* a sync that downloaded two files and then removed an unlisted one
C16_Witness ==
    /\ spc = "done"
    /\ manifestUrl # ""
    /\ Len(updates) = 2
    /\ Len(progress) = 2
    /\ removed # {}

\* C17: a sync whose manifestUrl is unset returns successfully in one step
\* that fetches no manifest, schedules and downloads nothing, and leaves
\* every local file as it was.
C17_NoUrlNoOp ==
    /\ [][(manifestUrl = "" /\ spc = "start") =>
             /\ spc' = "done"
             /\ syncResult'.kind = "returned"
             /\ <<manifest, updates, progress, gameDir, removed, tries>>'
                   = <<manifest, updates, progress, gameDir, removed, tries>>
         ]_vars
    /\ []((manifestUrl = "" /\ spc # "start") =>
             /\ spc = "done"
             /\ manifest = <<>>
             /\ progress = <<>>
             /\ removed = {})

\* a sync without manifest URL has returned over a game directory that
\* holds a jar no manifest of the model would keep
C17_Witness ==
    /\ spc = "done"
    /\ manifestUrl = ""
    /\ syncResult.kind = "returned"
    /\ gameDir[<<"mods", "old.jar">>] # Absent
    /\ gameDir[<<"mods", "a.jar">>] = Absent

\* C18: a failure in any stage of sync, a failure while scanning or deleting
\* during cleanup included, makes the call fail: a sync that has returned
\* successfully has met no failure in any folder it cleaned.
C18_EveryFailureSurfaced ==
    (spc = "done" /\ syncResult.kind = "returned") => warned = {}

\* C19: when the file downloadUpdates has just written does not hash to the
\* fingerprint of its entry, a path ending in .jar makes the call throw,
\* and any other path keeps the file, counts the entry as completed and
\* moves on to the next entry.
C19_StrictAndAdvisory ==
    [][(spc = "download" /\ fileIndex <= Len(updates)
           /\ gameDir'[updates[fileIndex].path] # Absent
           /\ Sha1(gameDir'[updates[fileIndex].path])
                 # updates[fileIndex].sha1) =>
          IF updates[fileIndex].path[Len(updates[fileIndex].path)]
                \in JarNames
          THEN /\ spc' = "failed"
               /\ syncResult'.kind = "threw"
               /\ progress' = progress
          ELSE /\ spc' = "download"
               /\ fileIndex' = fileIndex + 1
               /\ Len(progress') = Len(progress) + 1
               /\ progress'[Len(progress')].current = Len(progress')
       ]_vars

\* a sync that returned after a text file arrived with other bytes than its
\* fingerprint names, the file still being there
C19_Witness ==
    /\ spc = "done"
    /\ syncResult.kind = "returned"
    /\ \E k \in 1..Len(updates) :
          /\ updates[k].path = <<"config", "b.txt">>
          /\ updates[k].sha1 = Sha1(GoodBytes)
          /\ gameDir[updates[k].path] = StaleBytes
          /\ Len(progress) >= k

\* C20: a transfer of a modpack file that failed is attempted again; the
\* sync fails on a transfer error only when MAX_RETRIES calls of
\* downloadFile have been made for the file.
C20_EveryTransferRetried ==
    (spc = "failed" /\ syncResult.error \in DownloadFileErrors)
        => tries = MAX_RETRIES

\* C21: at most 5 library transfers and at most 10 asset transfers are in
\* flight at any moment, the transfers in flight are entries of the current
\* window, every entry of an earlier window has settled, and no entry of a
\* later window has started.
C21_WindowedConcurrency ==
    /\ ipc \in {"libraries", "librariesWindow"} =>
          /\ Cardinality(pending) <= 5
          /\ \A k \in pending : offset < k /\ k <= offset + 5
          /\ \A j \in 1..Len(missingFiles.libraries) :
                /\ (j <= offset /\ pending # {}) =>
                      libraryFiles[missingFiles.libraries[j].path] # Absent
                /\ j > offset + 5 =>
                      /\ libraryFiles[missingFiles.libraries[j].path] = Absent
                      /\ j \notin exhausted
    /\ ipc \in {"assets", "assetsWindow"} =>
          /\ Cardinality(pending) <= 10
          /\ stragglers = {}
          /\ \A k \in pending : offset < k /\ k <= offset + 10
          /\ \A j \in 1..Len(missingFiles.assets) :
                /\ (j <= offset /\ pending # {}) =>
                      assetObjects[missingFiles.assets[j].path] # Absent
                /\ j > offset + 10 =>
                      /\ assetObjects[missingFiles.assets[j].path] = Absent
                      /\ j \notin exhausted
    /\ Cardinality(pending) + Cardinality(stragglers) <= 10

\* the second window of assets is in flight after the ten transfers of the
\* first window have completed
C21_Witness ==
    /\ ipc = "assetsWindow"
    /\ offset = 10
    /\ pending # {}
    /\ stageCompleted = 10
    /\ Len(missingFiles.assets) > 10

\* C22: when entries of a window fail after their retries, the batch call
\* throws, and once every transfer of the window has settled the error it
\* threw names every entry of the window that failed.
C22_AggregateBatchFailure ==
    (ipc = "failed" /\ pending = {} /\ stragglers = {}) =>
        exhausted \subseteq stageError

\* position of a step of downloadAll in the order of its stages
PcRank(pc) ==
    CASE pc = "validated" -> 0
      [] pc = "client" -> 1
      [] pc \in {"libraries", "librariesWindow"} -> 2
      [] pc \in {"asset-index", "assetIndexRequest"} -> 3
      [] pc \in {"assets", "assetsWindow"} -> 4
      [] pc = "complete" -> 5
      [] OTHER -> 6

\* C23: downloadAll runs client, libraries, asset-index, assets in that
\* order and skips exactly the stages with nothing missing; while a stage
\* runs every file of the earlier stages has been written and transfers are
\* in flight only inside a window of the running stage; after a stage has
\* failed nothing starts and downloadAll only throws.
C23_StrictStageOrder ==
    /\ [](/\ PcRank(ipc) \in 2..5 =>
                (missingFiles.client # <<>> => clientJar # Absent)
          /\ PcRank(ipc) \in 3..5 =>
                \A k \in 1..Len(missingFiles.libraries) :
                    libraryFiles[missingFiles.libraries[k].path] # Absent
          /\ PcRank(ipc) \in 4..5 => assetIndexFile # Absent
          /\ PcRank(ipc) = 5 =>
                \A k \in 1..Len(missingFiles.assets) :
                    assetObjects[missingFiles.assets[k].path] # Absent
          /\ pending # {} => ipc \in {"librariesWindow", "assetsWindow"})
    /\ [][/\ (PcRank(ipc) \in 0..4 /\ ipc' \notin {ipc, "failed"}) =>
                /\ PcRank(ipc') \in PcRank(ipc)..5
                /\ \A k \in 1..4 :
                      (PcRank(ipc) < k /\ k < PcRank(ipc')) =>
                          ~StageHasWork(StageOrder[k], missingFiles)
                /\ (PcRank(ipc) < PcRank(ipc') /\ PcRank(ipc') < 5) =>
                      StageHasWork(StageOrder[PcRank(ipc')], missingFiles)
          /\ ipc = "failed" =>
                /\ ipc' \in {"failed", "idle"}
                /\ pending' = {}
                /\ ipc' = "idle" => lastPass' = "failed"]_vars

\* a run in which all four stages had work has finished its last stage
C23_Witness ==
    /\ ipc = "complete"
    /\ Len(stages) = 4
    /\ currentStageIndex = 4
    /\ pending = {}

\* sum of the weights of the stages with missing work that come before the
\* rank-th stage of StageOrder
WeightBelow(rank, missing) ==
    LET f[k \in 0..4] ==
            IF k = 0 THEN 0
            ELSE f[k - 1] + (IF k < rank /\ StageHasWork(StageOrder[k], missing)
                             THEN StageWeight(StageOrder[k]) ELSE 0)
    IN f[4]

\* C24: an event of stage s with stage percentage p reports
\* floor(100 * (weights of the stages finished) / W + (weight(s) / W) * p),
\* W the sum of the weights of the stages with missing work.
C24_WeightedOverallProgress ==
    (PcRank(ipc) \in 1..5 /\ lastEvent.stage \in {"client", "libraries",
                                                  "asset-index", "assets"}) =>
        lastEvent.overallProgress =
            (100 * WeightBelow(PcRank(lastEvent.stage), missingFiles)
                + StageWeight(lastEvent.stage) * lastEvent.stageProgress)
            \div WeightBelow(5, missingFiles)

\* C25: within one run of downloadAll the overallProgress of each event is
\* at least that of the event before it.
C25_MonotonicProgress ==
    [][(lastEvent.stage # "none" /\ lastEvent'.stage # "none") =>
           lastEvent'.overallProgress >= lastEvent.overallProgress]_vars

\* C26: the entries of the libraries list and of the assets list have
\* pairwise distinct destination paths, and no two transfers in flight
\* write the same destination.
C26_DisjointDestinations ==
    /\ \A i, j \in 1..Len(requiredFiles.libraries) :
          i # j => requiredFiles.libraries[i].path # requiredFiles.libraries[j].path
    /\ ipc = "assetsWindow" =>
          /\ \A i, j \in 1..Len(missingFiles.assets) :
                i # j => missingFiles.assets[i].path # missingFiles.assets[j].path
          /\ \A i, j \in pending :
                i # j => missingFiles.assets[i].path # missingFiles.assets[j].path

\* C27: a sync goes on to validation, download and cleanup only with a
\* manifest whose body holds a files list; any other answer of the manifest
\* URL ends the sync at the fetch.
C27_ManifestFetchFatal ==
    spc \in {"validate", "download", "cleanup"} => manifest.hasFiles

\* C28: a sync that has not returned or thrown can always take its next
\* step: at every request the host answers or the timeout of the request
\* fires.
C28_HungHostCannotStall ==
    spc \in {"start", "fetch", "validate", "download", "cleanup"} =>
        ENABLED SyncNext

\* C29: when the first downloadMinecraft over an empty root is about to
\* return successfully, the client jar, every library, the asset index and
\* every asset object are on disk with the content their checksum names,
\* and getMissingFiles over that tree reports nothing missing.
C29_FreshInstallConverges ==
    (ipc = "complete" /\ lastPass = "none") =>
        /\ ValidateFileStrict(clientJar, requiredFiles.client.sha1)
        /\ \A i \in 1..Len(requiredFiles.libraries) :
              ValidateFile(libraryFiles[requiredFiles.libraries[i].path],
                           requiredFiles.libraries[i].sha1)
        /\ assetIndexFile # Absent
        /\ \A j \in 1..Len(requiredFiles.assets.assets) :
              ValidateFileStrict(
                  assetObjects[requiredFiles.assets.assets[j].path],
                  requiredFiles.assets.assets[j].hash)
        /\ GetMissingFiles(clientJar, libraryFiles, assetIndexFile,
                           requiredFiles) = NoMissing

\* the first call has downloaded all four stages and is about to return
C29_Witness ==
    /\ ipc = "complete"
    /\ lastPass = "none"
    /\ lastEvent.stage = "assets"
    /\ lastEvent.completed = NumAssets
    /\ clientJar = GoodBytes
    /\ assetIndexFile = IndexBody

\* C30: the counter of downloadLibraries and downloadAssets never exceeds
\* the number of entries, a successful entry adds exactly one to it, the
\* stage ends successfully with the counter at the number of entries, and
\* every completion event reports floor(100 * completed / total).
C30_CompletedCount ==
    /\ [](/\ ipc \in {"libraries", "librariesWindow"} =>
                stageCompleted <= Len(missingFiles.libraries)
          /\ ipc \in {"assets", "assetsWindow"} =>
                stageCompleted <= Len(missingFiles.assets))
    /\ [][/\ (ipc \in {"libraries", "assets"} /\ offset = 0
                  /\ ipc' \in {"librariesWindow", "assetsWindow"}) =>
                stageCompleted' = 0
          /\ stageCompleted' = stageCompleted + 1 =>
                /\ lastEvent'.completed = stageCompleted'
                /\ lastEvent'.stageProgress =
                      (100 * stageCompleted') \div lastEvent'.total
          /\ (ipc = "librariesWindow" /\ libraryFiles' # libraryFiles
                  /\ failures' = failures) =>
                stageCompleted' = stageCompleted + 1
          /\ (ipc = "assetsWindow" /\ ipc' = "assetsWindow"
                  /\ assetObjects' # assetObjects) =>
                stageCompleted' = stageCompleted + 1
          /\ (ipc = "librariesWindow" /\ PcRank(ipc') \in 3..5) =>
                stageCompleted = Len(missingFiles.libraries)
          /\ (ipc = "assetsWindow" /\ ipc' = "complete") =>
                stageCompleted = Len(missingFiles.assets)]_vars

\* C31: onProgress is invoked at most once per measurement tick: any two
\* invocations for one transfer are at least half a second apart.
C31_CoalescedProgress ==
    \A i, j \in 1..Len(reports) :
        i < j => reports[j].at - reports[i].at >= PROGRESS_TICK_MS

\* C32: once downloadLibraries, downloadAssets or downloadAll has returned
\* or thrown, none of the transfers it started is still in flight.
C32_QuiescenceAtReturn ==
    ipc \in {"complete", "failed", "idle"} =>
        /\ pending = {}
        /\ stragglers = {}

\* the counts getInstallationStatus adds up, read from the tree: the client
\* jar that does not validate, the libraries that do not validate, the
\* asset index that does not exist and, with it, every asset
MissingOnDisk ==
    [client |-> IF ValidateFile(clientJar, requiredFiles.client.sha1)
                THEN 0 ELSE 1,
     libraries |-> Cardinality(
         {i \in 1..NumLibs :
             StillNeeded(libraryFiles[i], requiredFiles.libraries[i].sha1)}),
     assetIndex |-> IF assetIndexFile = Absent THEN 1 ELSE 0,
     assets |-> IF assetIndexFile = Absent
                THEN Len(requiredFiles.assets.assets) ELSE 0]

Requests == 1..Len(lpc)

\* requests whose call of launchMinecraft has not returned yet
Launching == {i \in Requests : lpc[i] \in {"start", "sync", "build"}}
\* requests whose child process was spawned and has not ended
Alive == {i \in Requests : proc[i] = "spawned"}

\* C34: at any time at most one request is inside launchMinecraft or owns a
\* spawned process that has not ended; a request that arrives while
\* gameRunning is true is answered {success: false, error: 'Game is already
\* running'} in the same step, and launchMinecraft is not called for it.
C34_SingleGameInstance ==
    /\ [](Cardinality(Launching \cup Alive) <= 1)
    /\ [][(Len(lpc') = Len(lpc) + 1 /\ gameRunning) =>
            /\ launched' = launched
            /\ gameRunning'
            /\ lpc'[Len(lpc')] = "done"
            /\ proc'[Len(lpc')] = "none"
            /\ replies'[Len(lpc')] =
                   [success |-> FALSE, error |-> "Game is already running"]
         ]_vars

\* a request was refused while the game another request spawned is running
C34_Witness ==
    \E i, j \in Requests :
        /\ i < j
        /\ proc[i] = "spawned"
        /\ replies[j] =
               [success |-> FALSE, error |-> "Game is already running"]
        /\ launched = 1

\* C35: gameRunning is true only while a request is inside launchMinecraft
\* or the process it spawned has not ended: once the launch failed or the
\* process ended, by 'exit' or by failing to start, the flag is false and
\* the next request is accepted.
C35_GameRunningReleased ==
    gameRunning => Launching \cup Alive # {}

\* C36: the modpack events of a launch are one 'checking', then only
\* 'downloading', then one terminal event as the last one; that event is
\* 'complete' exactly when sync resolved and 'error' exactly when it
\* rejected; the step that reports it moves launchMinecraft on to building
\* the arguments, from where the spawn is possible.
C36_LaunchSurvivesSyncFailure ==
    /\ [](\A i \in Requests :
            LET ev == modpackEvents[i]
                last == ev[Len(ev)]
            IN /\ ev # <<>> => ev[1] = "checking"
               /\ \A k \in 2..Len(ev) : ev[k] # "checking"
               /\ \A k \in 1..(Len(ev) - 1) :
                     ev[k] \notin {"complete", "error"}
               /\ \A k \in 2..(Len(ev) - 1) : ev[k] = "downloading"
               /\ lpc[i] = "sync" <=>
                     (ev # <<>> /\ last \notin {"complete", "error"})
               /\ syncOutcome[i] = "resolved" <=>
                     (ev # <<>> /\ last = "complete")
               /\ syncOutcome[i] = "rejected" <=>
                     (ev # <<>> /\ last = "error")
               /\ lpc[i] = "build" => ENABLED SpawnGame(i))
    /\ [][\A i \in Requests :
             (syncOutcome[i] = "none" /\ syncOutcome'[i] # "none") =>
                 /\ lpc'[i] = "build"
                 /\ Len(modpackEvents'[i]) = Len(modpackEvents[i]) + 1
         ]_vars

\* sync rejected after one download was reported, and the game was spawned
C36_Witness ==
    \E i \in Requests :
        /\ syncOutcome[i] = "rejected"
        /\ modpackEvents[i] = <<"checking", "downloading", "error">>
        /\ proc[i] = "spawned"

\* C37: downloadUpdates handles filesToDownload one entry at a time in list
\* order: an iteration writes no path but that of the entry at fileIndex,
\* the index advances by one and only with one progress event, the events
\* carry current = 1, 2, ... and total = the length of the list, all of them
\* are there when the loop is left normally, and an iteration that fails
\* leaves index, events and every other file as they are, after which no
\* step of the failed sync writes a file or reports progress.
C37_SequentialDownloads ==
    /\ [](/\ \A k \in 1..Len(progress) :
                /\ progress[k].current = k
                /\ progress[k].total = Len(updates)
          /\ spc = "download" =>
                /\ fileIndex \in 1..(Len(updates) + 1)
                /\ Len(progress) = fileIndex - 1
          /\ spc \in {"cleanup", "done"} => Len(progress) = Len(updates))
    /\ [][/\ (spc = "download" /\ fileIndex <= Len(updates)) =>
                /\ \A p \in LocalPaths :
                      p # updates[fileIndex].path => gameDir'[p] = gameDir[p]
                /\ \/ /\ fileIndex' = fileIndex + 1
                      /\ Len(progress') = Len(progress) + 1
                      /\ spc' = "download"
                      /\ gameDir'[updates[fileIndex].path] # Absent
                   \/ /\ spc' = "failed"
                      /\ UNCHANGED <<fileIndex, progress>>
          /\ spc = "failed" => UNCHANGED <<gameDir, fileIndex, progress>>
         ]_vars

\* a run over two scheduled files that failed at the second: the first is
\* in place and reported, the second is not
C37_Witness ==
    /\ spc = "failed"
    /\ Len(updates) = 2
    /\ fileIndex = 2
    /\ progress = <<[current |-> 1, total |-> 2]>>
    /\ gameDir[updates[1].path] # Absent
    /\ gameDir[updates[2].path] = Absent

\* C38: the event {stage: 'complete', overallProgress: 100} is delivered in
\* the step in which downloadAll returns and in no other step, so once per
\* run that returns and as its last event; every such run delivers it; no
\* event of a run that is under way or has failed is 'complete'; a run
\* that found nothing missing has delivered no event when it reaches its
\* completion event.
C38_CompletionEvent ==
    /\ [](/\ lastEvent.stage = "complete" =>
                /\ lastEvent.overallProgress = 100
                /\ lastPass = "success"
                /\ ipc \in {"idle", "validated"}
          /\ (ipc = "complete" /\ stages = <<>>) => lastEvent = NoEvent
          /\ ipc = "complete" => currentStageIndex = Len(stages))
    /\ [][/\ (ipc = "complete" /\ ipc' # ipc) =>
                /\ lastEvent'.stage = "complete"
                /\ lastEvent'.overallProgress = 100
                /\ ipc' = "idle"
                /\ lastPass' = "success"
          /\ (lastEvent'.stage = "complete" /\ lastEvent' # lastEvent) =>
                ipc = "complete"
          /\ (ipc = "failed" /\ ipc' # ipc) =>
                /\ lastEvent' = lastEvent
                /\ lastPass' = "failed"
         ]_vars

\* a run that downloaded every asset has returned, 'complete' being the
\* last event it delivered
C38_Witness ==
    /\ ipc = "idle"
    /\ lastPass = "success"
    /\ lastEvent.stage = "complete"
    /\ stageCompleted = NumAssets
    /\ \A j \in 1..NumAssets : assetObjects[j] = GoodBytes

\* a rule applies to the current OS: it has no os field, or its os.name is
\* the name of the current OS
AppliesToCurrentOS(rule) ==
    ~rule.os.present \/ rule.os.name = GetOSName(platform)

\* the rules of the entry that apply, by position
ApplyingRules ==
    {k \in 1..Len(libEntry.rules) : AppliesToCurrentOS(libEntry.rules[k])}

\* C39: when getLibraries is done with an entry, the entry is in the list
\* exactly when it has no rules, or the last of its rules that applies to
\* the current OS has action 'allow'; an entry none of whose rules applies
\* is not in the list.
C39_LibraryRuleEvaluation ==
    gpc = "done" =>
        (included # <<>> <=>
            \/ ~libEntry.hasRules
            \/ /\ ApplyingRules # {}
               /\ LET last == CHOOSE k \in ApplyingRules :
                                 \A j \in ApplyingRules : j <= k
                  IN libEntry.rules[last].action = "allow")

====
